---- MODULE Spec2Model ----
(***************************************************************************)
(* QuietWire Ledger link checker (tools/check_links.py): the external      *)
(* reachability protocol http_ok, the time-to-live cache, check_external,  *)
(* process_file and the orchestrating main, as a state machine.            *)
(*                                                                         *)
(* urlopen is the environment.  A response is what urlopen hands back to   *)
(* http_ok: a status code with the url r.geturl() reports, or an exception *)
(* with the name of its type.                                              *)
(*                                                                         *)
(* Python's Optional values are sequences of length at most one: <<>> is   *)
(* None, <<x>> is x.  A reason string is a record of its text pieces and   *)
(* the number formatted into it: "http_404" is                             *)
(* [text |-> <<"http_">>, num |-> <<404>>], and "cached:" + s prepends the *)
(* piece "cached:" to s.text.                                              *)
(***************************************************************************)
EXTENDS Integers, Sequences, FiniteSets, TLC

\* ------------------------------------------------------------------ bounds
\* Largest max_redirects the http_ok harness is called with.
MaxRedirectsArg == 2

\* Width of the worker pool (--workers).
NWorkers == 2

\* The clock runs from 0 to MaxTime.
MaxTime == 2

\* The cache's max_age (--max-age), in clock ticks.
MaxAge == 1

\* Number of consecutive runs of the program over the same corpus.
MaxRuns == 2

\* --------------------------------------------------------- program constants
\* http_ok's default max_redirects, the value every check_external call uses.
DefaultMaxRedirects == 5

\* (mutant) file is not forbidden.
FORBIDDEN_SCHEMES_NoFile == {"javascript", "data"}

FORBIDDEN_SCHEMES == {"javascript", "file", "data"}

\* (mutant) tel is not skipped.
SKIP_SCHEMES_NoTel == {"mailto"}

SKIP_SCHEMES == {"mailto", "tel"}

\* An address is its groups: four octets (IPv4) or eight 16-bit groups (IPv6).
PRIVATE_NETS ==
  { [addr |-> <<127, 0, 0, 0>>, plen |-> 8],
    [addr |-> <<10, 0, 0, 0>>, plen |-> 8],
    [addr |-> <<172, 16, 0, 0>>, plen |-> 12],
    [addr |-> <<192, 168, 0, 0>>, plen |-> 16],
    [addr |-> <<169, 254, 0, 0>>, plen |-> 16],
    [addr |-> <<0, 0, 0, 0, 0, 0, 0, 1>>, plen |-> 128],
    [addr |-> <<64512, 0, 0, 0, 0, 0, 0, 0>>, plen |-> 7] }

\* The status codes on which a HEAD is retried as GET.
FallbackCodes == {400, 401, 403, 405, 501}

\* ------------------------------------------------------------------- hosts
\* ipaddress.ip_address(host) on the host strings of the model: the parsed
\* groups, or <<>> where it raises ValueError.
ip_address(host) ==
  CASE host = "127.0.0.1"   -> << <<127, 0, 0, 1>> >>
    [] host = "10.0.0.5"    -> << <<10, 0, 0, 5>> >>
    [] host = "172.16.9.1"  -> << <<172, 16, 9, 1>> >>
    [] host = "172.32.0.1"  -> << <<172, 32, 0, 1>> >>
    [] host = "192.168.1.1" -> << <<192, 168, 1, 1>> >>
    [] host = "169.254.1.1" -> << <<169, 254, 1, 1>> >>
    [] host = "0.0.0.0"     -> << <<0, 0, 0, 0>> >>
    [] host = "93.184.216.34" -> << <<93, 184, 216, 34>> >>
    [] host = "::1"         -> << <<0, 0, 0, 0, 0, 0, 0, 1>> >>
    [] host = "fd00::1"     -> << <<64768, 0, 0, 0, 0, 0, 0, 1>> >>
    [] host = "fe80::1"     -> << <<65152, 0, 0, 0, 0, 0, 0, 1>> >>
    [] OTHER                -> <<>>

\* str.lower() on the host strings of the model.
lower(s) ==
  CASE s = "LOCALHOST" -> "localhost"
    [] s = "A.Example" -> "a.example"
    [] s = "Intro" -> "intro"
    [] s = "Section" -> "section"
    [] s = "Two" -> "two"
    [] OTHER -> s

\* `ip in n`: same version, and the first n.plen bits agree.
InNet(ip, n) ==
  /\ Len(ip) = Len(n.addr)
  /\ LET w == IF Len(ip) = 4 THEN 8 ELSE 16
     IN \A i \in 1..Len(ip) :
          LET rest == n.plen - w * (i - 1)
              bits == IF rest < 0 THEN 0 ELSE IF rest > w THEN w ELSE rest
          IN ip[i] \div (2 ^ (w - bits)) = n.addr[i] \div (2 ^ (w - bits))

is_private_host(host) ==
  IF host = "" THEN TRUE
  ELSE IF ip_address(host) # <<>>
       THEN \E n \in PRIVATE_NETS : InNet(ip_address(host)[1], n)
       ELSE lower(host) \in {"localhost", "localhost.localdomain", "0.0.0.0"}

\* -------------------------------------------------------------------- urls
\* A url string is the sequence of its tokens: a scheme with its colon
\* ("http:"), single slashes, host and segment names, "#", blanks and the
\* punctuation ")", ".", ",", ";".
SchemeTokens ==
  {"http:", "https:", "mailto:", "tel:", "javascript:", "file:", "data:"}

\* The scheme token without its colon.
SchemeName(tok) ==
  CASE tok = "http:" -> "http"
    [] tok = "https:" -> "https"
    [] tok = "mailto:" -> "mailto"
    [] tok = "tel:" -> "tel"
    [] tok = "javascript:" -> "javascript"
    [] tok = "file:" -> "file"
    [] tok = "data:" -> "data"
    [] OTHER -> ""

RECURSIVE LStrip(_, _)
LStrip(s, chars) ==
  IF s # <<>> /\ Head(s) \in chars THEN LStrip(Tail(s), chars) ELSE s

RECURSIVE RStrip(_, _)
RStrip(s, chars) ==
  IF s # <<>> /\ s[Len(s)] \in chars
  THEN RStrip(SubSeq(s, 1, Len(s) - 1), chars) ELSE s

\* str.strip(chars)
Strip(s, chars) == RStrip(LStrip(s, chars), chars)

\* Index of the first "#" of s, or Len(s) + 1.
HashAt(s) ==
  IF \E i \in 1..Len(s) : s[i] = "#"
  THEN CHOOSE i \in 1..Len(s) : s[i] = "#" /\ \A j \in 1..(i - 1) : s[j] # "#"
  ELSE Len(s) + 1

\* urllib.parse.urlparse: scheme, netloc, path and fragment of a url.
urlparse(url) ==
  LET hasScheme == url # <<>> /\ Head(url) \in SchemeTokens
      scheme == IF hasScheme THEN SchemeName(Head(url)) ELSE ""
      r1 == IF hasScheme THEN Tail(url) ELSE url
      hasNet == Len(r1) >= 2 /\ r1[1] = "/" /\ r1[2] = "/"
      r2 == IF hasNet THEN SubSeq(r1, 3, Len(r1)) ELSE r1
      named == hasNet /\ r2 # <<>> /\ Head(r2) \notin {"/", "#"}
      netloc == IF named THEN Head(r2) ELSE ""
      r3 == IF named THEN Tail(r2) ELSE r2
      h == HashAt(r3)
  IN [scheme |-> scheme, netloc |-> netloc, hostname |-> lower(netloc),
      path |-> SubSeq(r3, 1, h - 1), fragment |-> SubSeq(r3, h + 1, Len(r3))]

\* urlparse(url) raises ValueError("Invalid IPv6 URL"): the netloc has one
\* square bracket without the other.  On the netloc tokens of the model.
ValueError(url) ==
  urlparse(url).netloc \in {"[bad", "bad]"}

\* urllib.parse.urlunparse of an http(s) url.
urlunparse(scheme, netloc, path, fragment) ==
  <<IF scheme = "http" THEN "http:" ELSE "https:", "/", "/">>
     \o (IF netloc = "" THEN <<>> ELSE <<netloc>>)
     \o path \o (IF fragment = <<>> THEN <<>> ELSE <<"#">> \o fragment)

\* re.sub(r"//+", "/", path)
RECURSIVE CollapseSlashes(_)
CollapseSlashes(path) ==
  IF Len(path) < 2 THEN path
  ELSE IF path[1] = "/" /\ path[2] = "/" THEN CollapseSlashes(Tail(path))
  ELSE <<Head(path)>> \o CollapseSlashes(Tail(path))

\* (mutant) runs of slashes in the path are kept.
normalize_urlNoCollapse(raw) ==
  LET url == Strip(Strip(raw, {" "}), {")", ".", ",", ";"})
      u == urlparse(url)
  IN IF ValueError(url) THEN url
     ELSE IF u.scheme \in {"http", "https"}
     THEN urlunparse(u.scheme, u.netloc,
                     IF u.path = <<>> THEN <<"/">> ELSE u.path, u.fragment)
     ELSE url

\* The try of normalize_url swallows urlparse's ValueError: the stripped
\* string is returned as it is.
normalize_url(raw) ==
  LET url == Strip(Strip(raw, {" "}), {")", ".", ",", ";"})
      u == urlparse(url)
  IN IF ValueError(url) THEN url
     ELSE IF u.scheme \in {"http", "https"}
     THEN LET c == CollapseSlashes(u.path)
              path == IF c = <<>> THEN <<"/">> ELSE c
          IN urlunparse(u.scheme, u.netloc, path, u.fragment)
     ELSE url

UA == <<"http:", "/", "/", "a.example", "/">>

UB == <<"https:", "/", "/", "b.example", "/", "x">>

ULoop == <<"http:", "/", "/", "127.0.0.1", "/">>

UZero == <<"http:", "/", "/", "0.0.0.0", "/">>

\* http://a.example// as it is written, the run of slashes not collapsed.
USlashes == <<"http:", "/", "/", "a.example", "/", "/">>

\* ------------------------------------------------------------- http_ok
OkReason == [text |-> <<"ok">>, num |-> <<>>]

HttpReason(code) == [text |-> <<"http_">>, num |-> <<code>>]

ExcReason(name) == [text |-> <<name>>, num |-> <<>>]

LoopReason == [text |-> <<"redirect_loop">>, num |-> <<>>]

Plain(text) == [text |-> <<text>>, num |-> <<>>]

Outcome(ok, code, final, reason) ==
  [ok |-> ok, code |-> code, final |-> final, reason |-> reason]

Resp(code, url) == [kind |-> "resp", code |-> code, url |-> url, name |-> ""]

Exc(name) == [kind |-> "exc", code |-> 0, url |-> <<>>, name |-> name]

\* The local variables of one http_ok call, with the request counter nreq and
\* the last response handled (last) as history; ret is <<>> while the loop runs.
HttpStart(url, max_redirects) ==
  [max |-> max_redirects, method |-> "HEAD", seen |-> 0, current |-> url,
   nreq |-> 0, last |-> <<>>,
   ret |-> IF 0 <= max_redirects THEN <<>>
           ELSE << Outcome(FALSE, <<>>, <<url>>, LoopReason) >>]

\* (mutant) the loop test is `seen < max_redirects`.
LoopTestAlt(c) ==
  IF c.seen < c.max THEN c
  ELSE [c EXCEPT !.ret = << Outcome(FALSE, <<>>, <<c.current>>, LoopReason) >>]

\* The loop test `while seen <= max_redirects`, evaluated after an iteration
\* that did not return.
LoopTest(c) ==
  IF c.seen <= c.max THEN c
  ELSE [c EXCEPT !.ret = << Outcome(FALSE, <<>>, <<c.current>>, LoopReason) >>]

\* (mutant) a fallback status under HEAD is counted as a redirect.
OnResponseAlt(c, r) ==
  IF 200 <= r.code /\ r.code < 300
  THEN [c EXCEPT !.ret = << Outcome(TRUE, <<r.code>>, <<r.url>>, OkReason) >>]
  ELSE IF 300 <= r.code /\ r.code < 400
  THEN LoopTest([c EXCEPT !.current = r.url, !.seen = c.seen + 1])
  ELSE IF c.method = "HEAD" /\ r.code \in FallbackCodes
  THEN LoopTest([c EXCEPT !.method = "GET", !.seen = c.seen + 1])
  ELSE [c EXCEPT !.ret =
          << Outcome(FALSE, <<r.code>>, <<r.url>>, HttpReason(r.code)) >>]

\* (mutant) a 404 under HEAD is retried as GET too.
OnResponseRetry404(c, r) ==
  IF 200 <= r.code /\ r.code < 300
  THEN [c EXCEPT !.ret = << Outcome(TRUE, <<r.code>>, <<r.url>>, OkReason) >>]
  ELSE IF 300 <= r.code /\ r.code < 400
  THEN LoopTest([c EXCEPT !.current = r.url, !.seen = c.seen + 1])
  ELSE IF c.method = "HEAD" /\ r.code \in FallbackCodes \cup {404}
  THEN LoopTest([c EXCEPT !.method = "GET"])
  ELSE [c EXCEPT !.ret =
          << Outcome(FALSE, <<r.code>>, <<r.url>>, HttpReason(r.code)) >>]

\* The body of the try: urlopen returned r.
OnResponse(c, r) ==
  IF 200 <= r.code /\ r.code < 300
  THEN [c EXCEPT !.ret = << Outcome(TRUE, <<r.code>>, <<r.url>>, OkReason) >>]
  ELSE IF 300 <= r.code /\ r.code < 400
  THEN LoopTest([c EXCEPT !.current = r.url, !.seen = c.seen + 1])
  ELSE IF c.method = "HEAD" /\ r.code \in FallbackCodes
  THEN LoopTest([c EXCEPT !.method = "GET"])
  ELSE [c EXCEPT !.ret =
          << Outcome(FALSE, <<r.code>>, <<r.url>>, HttpReason(r.code)) >>]

\* (mutant) the failed HEAD is retried as HEAD.
OnExceptionRetryHead(c, r) ==
  IF c.method = "HEAD" /\ c.nreq <= c.max + 2
  THEN LoopTest(c)
  ELSE [c EXCEPT !.ret = << Outcome(FALSE, <<>>, <<>>, ExcReason(r.name)) >> ]

\* (mutant) a transport failure ends the check under HEAD too.
OnExceptionNoRetry(c, r) ==
  [c EXCEPT !.ret = << Outcome(FALSE, <<>>, <<>>, ExcReason(r.name)) >> ]

\* (mutant) a transport failure reports the url that was being requested.
OnExceptionKeepsUrl(c, r) ==
  IF c.method = "HEAD"
  THEN LoopTest([c EXCEPT !.method = "GET"])
  ELSE [c EXCEPT !.ret =
          << Outcome(FALSE, <<>>, <<c.current>>, ExcReason(r.name)) >> ]

\* The except clause: urlopen raised.
OnException(c, r) ==
  IF c.method = "HEAD"
  THEN LoopTest([c EXCEPT !.method = "GET"])
  ELSE [c EXCEPT !.ret = << Outcome(FALSE, <<>>, <<>>, ExcReason(r.name)) >> ]

\* One iteration of http_ok's loop: the request to c.current with c.method is
\* issued and answered by r.
http_ok(c, r) ==
  LET d == [c EXCEPT !.nreq = c.nreq + 1, !.last = <<r>>]
  IN IF r.kind = "resp" THEN OnResponse(d, r) ELSE OnException(d, r)

\* ------------------------------------------------------------------ cache
Record(o, ts) ==
  [ok |-> o.ok, code |-> o.code, final |-> o.final, reason |-> o.reason,
   ts |-> ts]

\* (mutant) a record exactly max_age old counts as expired.
cache_getStrict(data, url, t) ==
  IF data[url] = <<>> THEN <<>>
  ELSE IF t - data[url][1].ts >= MaxAge THEN <<>>
  ELSE data[url]

\* (mutant) a record never expires.
cache_getNoExpiry(data, url, t) == data[url]

\* Cache.get: the record, or <<>> when there is none or it is older than
\* max_age.
cache_get(data, url, t) ==
  IF data[url] = <<>> THEN <<>>
  ELSE IF t - data[url][1].ts > MaxAge THEN <<>>
  ELSE data[url]

\* (mutant) a put over an existing record keeps that record's timestamp.
cache_putKeepTs(data, url, o, t) ==
  [data EXCEPT ![url] =
     << Record(o, IF data[url] = <<>> THEN t ELSE data[url][1].ts) >>]

\* (mutant) a put leaves an existing record in place.
cache_putFirstWins(data, url, o, t) ==
  IF data[url] = <<>> THEN [data EXCEPT ![url] = << Record(o, t) >>] ELSE data

\* (mutant) a put stores nothing.
cache_putDropped(data, url, o, t) == data

\* Cache.put
cache_put(data, url, o, t) == [data EXCEPT ![url] = << Record(o, t) >>]

\* (mutant) the hit reads the final url under a key the record does not have.
CachedOutcomeNoFinal(rec) ==
  Outcome(rec.ok, rec.code, <<>>,
          [rec.reason EXCEPT !.text = <<"cached:">> \o @])

\* (mutant) the hit drops the stored status code.
CachedOutcomeNoCode(rec) ==
  Outcome(rec.ok, <<>>, rec.final,
          [rec.reason EXCEPT !.text = <<"cached:">> \o @])

\* What check_external returns on a hit: "cached:" + str(reason).
CachedOutcome(rec) ==
  Outcome(rec.ok, rec.code, rec.final,
          [rec.reason EXCEPT !.text = <<"cached:">> \o @])

\* (mutant) the hit puts the tuple it returns.
check_external_hitPuts(data, url, t) ==
  cache_put(data, url, CachedOutcome(data[url][1]), t)

\* Cache.data after a check_external call that returned at the hit: the
\* call has made no put.
check_external_hit(data, url, t) == data

\* ----------------------------------------------------------------- corpus
Link(raw, line) == [raw |-> raw, line |-> line]

Doc(path, links) == [path |-> path, links |-> links]

\* The documents of the run, each with the occurrences extract_links yields.
Corpus ==
  << Doc(<<"a.md">>,
         << Link(<<"http:", "/", "/", "a.example">>, 1) >>),
     Doc(<<"b.md">>,
         << Link(<<"http:", "/", "/", "a.example", "/", ",">>, 1),
            Link(<<"http:", "/", "/", "a.example", "/", "/">>, 1),
            Link(<<"http:", "/", "/", "127.0.0.1", "/">>, 2),
            Link(<<"http:", "/", "/", "0.0.0.0", "/">>, 3),
            Link(<<"mailto:", "x@a.example">>, 4),
            Link(<<"javascript:", "alert(1">>, 5),
            Link(<<"other.md", "#", "Intro">>, 6),
            Link(<<"gone.md">>, 6) >>),
     Doc(<<"c.md">>,
         << Link(<<"tel:", "+1">>, 1),
            Link(<<"file:", "/", "/", "/", "etc">>, 1),
            Link(<<"http:", "/", "/", "[bad", "/">>, 2),
            Link(<<"mailto:", "y@a.example">>, 3) >>),
     Doc(<<"d.md">>, <<>>),
     Doc(<<"e.md">>,
         << Link(<<"mailto:", "z@a.example">>, 1),
            Link(<<"http:", "/", "/", "a.example">>, 2) >>) >>

Docs == 1..Len(Corpus)

\* The urls requests go to and the cache is keyed by.
NetUrls == {UA, UB, ULoop, UZero, USlashes}

Methods == {"HEAD", "GET"}

\* ------------------------------------------------------------ file system
\* The paths that exist in the documents' directory: the files, each with
\* the texts of its heading lines, and the directory docs.
Files ==
  [name \in {<<"a.md">>, <<"b.md">>, <<"c.md">>, <<"d.md">>, <<"e.md">>,
             <<"other.md">>, <<"docs">>} |->
     IF name = <<"other.md">> THEN << <<"Intro">>, <<"Section", " ", "Two">> >>
     ELSE IF name = <<"a.md">> THEN << <<"Intro">> >>
     ELSE <<>>]

\* The paths whose read_text raises.
Unreadable == {<<"docs">>}

\* (md_path.parent / target).resolve(), for targets in the documents'
\* directory: a leading "./" goes.
resolve(target) ==
  IF Len(target) >= 2 /\ target[1] = "." /\ target[2] = "/"
  THEN SubSeq(target, 3, Len(target)) ELSE target

\* PUNCT_RE.sub("", text): the tokens that are neither words, hyphens nor
\* blanks go.
RECURSIVE DropPunct(_)
DropPunct(text) ==
  IF text = <<>> THEN <<>>
  ELSE IF Head(text) \in {"!", "?", ".", ","} THEN DropPunct(Tail(text))
  ELSE <<Head(text)>> \o DropPunct(Tail(text))

\* re.sub(r"\s+", "-", text): every run of blanks becomes one hyphen.
RECURSIVE Hyphenate(_)
Hyphenate(text) ==
  IF text = <<>> THEN <<>>
  ELSE IF Head(text) = " "
  THEN IF Len(text) >= 2 /\ text[2] = " " THEN Hyphenate(Tail(text))
       ELSE <<"-">> \o Hyphenate(Tail(text))
  ELSE <<Head(text)>> \o Hyphenate(Tail(text))

\* (mutant) the text is not lowercased.
slugify_headingNoLower(text) ==
  Strip(Hyphenate(DropPunct(Strip(text, {" "}))), {"-"})

\* slugify_heading on a text of word, blank, hyphen and punctuation tokens.
slugify_heading(text) ==
  LET t == Strip(text, {" "})
      low == [i \in 1..Len(t) |-> lower(t[i])]
  IN Strip(Hyphenate(DropPunct(low)), {"-"})

\* extract_headings: the slugs of a file's headings.
extract_headings(name) ==
  {slugify_heading(Files[name][i]) : i \in 1..Len(Files[name])}

\* (mutant) the anchor is looked up as it is written.
anchor_missingRaw(anchor, name) ==
  anchor # <<>> /\ anchor \notin extract_headings(name)

\* anchor and slugify_heading(anchor) not in slugs, slugs those of file name
anchor_missing(anchor, name) ==
  anchor # <<>> /\ slugify_heading(anchor) \notin extract_headings(name)

\* check_internal(md_path, url): <<ok, reason>>.
check_internal(md, url) ==
  LET h == HashAt(url)
      target == SubSeq(url, 1, h - 1)
      anchor == SubSeq(url, h + 1, Len(url))
      tgt == resolve(target)
      missing == [text |-> <<"missing_anchor: #">> \o anchor, num |-> <<>>]
  IN IF target = <<>>
     THEN IF anchor_missing(anchor, md)
          THEN <<FALSE, missing>> ELSE <<TRUE, OkReason>>
     ELSE IF tgt \notin DOMAIN Files
     THEN <<FALSE, Plain("missing_relative_path")>>
     ELSE IF anchor # <<>> /\ tgt \in Unreadable
     THEN <<FALSE, Plain("unreadable_target_for_anchor_check")>>
     ELSE IF anchor_missing(anchor, tgt)
     THEN <<FALSE, missing>>
     ELSE <<TRUE, OkReason>>

\* ---------------------------------------------------------------- network
\* The network answers each (url, method) the same way every time.  Requests
\* to a.example are answered by h (HEAD) and g (GET); every other url is
\* answered 200.
NetOf(h, g) ==
  [k \in NetUrls \X Methods |->
     IF k[1] = UA THEN (IF k[2] = "HEAD" THEN h ELSE g) ELSE Resp(200, k[1])]

FinalAnswers ==
  {Resp(200, UA), Resp(301, UB), Resp(301, UA), Resp(301, ULoop),
   Resp(429, UA), Resp(404, UA)}

Nets ==
  {NetOf(r, r) : r \in FinalAnswers}
    \cup {NetOf(Resp(405, UA), Resp(200, UA)), NetOf(Resp(405, UA), Resp(429, UA)),
          NetOf(Exc("URLError"), Resp(200, UA)),
          NetOf(Exc("URLError"), Exc("URLError"))}

\* The cache files the first run may find.
NoData == [k \in NetUrls |-> <<>>]

InitFiles ==
  {NoData,
   [NoData EXCEPT ![UA] = << Record(Outcome(TRUE, <<200>>, <<UA>>, OkReason), 0) >>],
   [NoData EXCEPT ![UA] =
      << Record(Outcome(FALSE, <<404>>, <<UA>>, HttpReason(404)), 0) >>]}

\* The command lines of the model: --allow-host, --deny-host, --external-only,
\* with --workers at the bound and without --no-verify-rel.  max_redirects is
\* the redirect limit the caller of the checker asks for; main has no option
\* for it and check_external no parameter.
Config(allow, deny, eo) ==
  [allow_hosts |-> allow, deny_hosts |-> deny, external_only |-> eo,
   max_redirects |-> DefaultMaxRedirects, workers |-> NWorkers,
   verify_rel |-> TRUE]

DefaultConfig == Config({}, {}, FALSE)

OtherConfigs ==
  {Config({"a.example"}, {}, FALSE), Config({}, {".example"}, FALSE),
   Config({}, {}, TRUE)}

\* The file lists main gathers: the two well-formed documents, the first
\* four, or e.md alone.
TwoFiles == <<1, 2>>

AllFiles == <<1, 2, 4, 3>>

LastFile == <<5>>

\* The cache path: its content is a JSON object ("object"), is not JSON
\* ("garbage") or is a JSON array ("array"); the path can be written or not.
Disk(shape, writable) == [shape |-> shape, writable |-> writable]

GoodDisk == Disk("object", TRUE)

\* A caller asking for no redirect to be followed.
LimitConfig == [DefaultConfig EXCEPT !.max_redirects = 0]

\* --workers 1
SingleConfig == [DefaultConfig EXCEPT !.workers = 1]

\* --no-verify-rel
NoVerifyRelConfig == [DefaultConfig EXCEPT !.verify_rel = FALSE]

\* The runs of the model: every network and cache file under the default
\* command line; the other command lines with two of the networks and no
\* cache file; an allow-list and a deny-list with a cache file that has a
\* record of a denied url; an allow-list no host of the corpus matches; c.md
\* and d.md added to the file list; a cache path whose content is unusable
\* or that cannot be written; a caller's redirect limit; a pool of one
\* worker; --no-verify-rel; and e.md as the only document.
Setups ==
  {<<n, DefaultConfig, f, TwoFiles, GoodDisk>> : n \in Nets, f \in InitFiles}
    \cup {<<n, c, NoData, TwoFiles, GoodDisk>> :
            n \in {NetOf(Resp(200, UA), Resp(200, UA)),
                   NetOf(Resp(301, ULoop), Resp(301, ULoop))},
            c \in OtherConfigs}
    \cup {<<NetOf(Resp(200, UA), Resp(200, UA)),
            Config({"b.example"}, {".example"}, FALSE),
            [NoData EXCEPT ![UA] =
               << Record(Outcome(TRUE, <<200>>, <<UA>>, OkReason), 0) >>],
            TwoFiles, GoodDisk>>,
          <<NetOf(Resp(404, UA), Resp(404, UA)), Config({"b.example"}, {}, FALSE),
            NoData, TwoFiles, GoodDisk>>,
          <<NetOf(Resp(200, UA), Resp(200, UA)), DefaultConfig, NoData, AllFiles, GoodDisk>>}
    \cup {<<NetOf(Resp(200, UA), Resp(200, UA)), DefaultConfig, NoData, TwoFiles, d>> :
            d \in {Disk("garbage", TRUE), Disk("array", TRUE), Disk("object", FALSE)}}
    \cup {<<NetOf(Resp(301, UB), Resp(301, UB)), LimitConfig, NoData, TwoFiles,
            GoodDisk>>}
    \cup {<<NetOf(r, r), SingleConfig, NoData, TwoFiles, GoodDisk>> :
            r \in {Resp(200, UA), Resp(404, UA)}}
    \cup {<<NetOf(Resp(200, UA), Resp(200, UA)), NoVerifyRelConfig, NoData,
            TwoFiles, GoodDisk>>}
    \cup {<<NetOf(r, r), DefaultConfig, NoData, LastFile, GoodDisk>> :
            r \in {Resp(200, UA), Resp(429, UA)}}

\* str.endswith on the host strings and suffixes of the model.
endswith(host, suffix) ==
  \/ host = suffix
  \/ <<host, suffix>> \in {<<"a.example", ".example">>, <<"b.example", ".example">>}

\* ------------------------------------------------------------------ state
VARIABLES
  call,         \* the call of the harness: of http_ok or of check_internal
  prev,         \* the call's state before its last iteration (history)
  net,          \* the network: (url, method) -> response
  cfg,          \* the command line
  file,         \* the cache file
  file0,        \* the cache file the first run found (history)
  files,        \* main's files: the documents of the run
  disk,         \* the cache path: what its content parses to, and whether
                \* it can be written
  cache,        \* Cache.data
  now,          \* time.time()
  run,          \* which run of the program this is
  phase,        \* main: "start", "running" (pool open), "saved"; "failed"
                \* (a future's result raised, the pool is being shut down),
                \* "crashed" (the exception has left main)
  queue,        \* the executor's work queue: documents not yet taken
  wk,           \* per worker thread: its process_file call
  all_findings, \* main's all_findings
  results,      \* per document, the batch its job returned (history)
  prevResults,  \* results of the run before (history)
  requested,    \* the requests issued in this run, each as <<url checked,
                \* url requested, method>> (history)
  looked,       \* the urls Cache.get was called for in this run (history)
  written,      \* the urls Cache.put was called for, in any run (history)
  resolved,     \* the check_internal calls of this run, each as
                \* <<document, url>> (history)
  invoked,      \* the occurrences <<document, index>> http_ok was called
                \* for in this run (history)
  loads,        \* how often this run has called Cache.load (history)
  saves         \* how often this run has called Cache.save (history)

vars == <<call, prev, net, cfg, file, file0, files, disk, cache, now, run, phase,
          queue, wk, all_findings, results, prevResults, requested, looked,
          written, resolved, invoked, loads, saves>>

runVars == <<net, cfg, file, file0, files, disk, cache, now, run, phase, queue, wk,
             all_findings, results, prevResults, requested, looked, written,
             resolved, invoked, loads, saves>>

Workers == 1..NWorkers

\* A worker thread: the document of its process_file call (0: none), the
\* index of the occurrence it is at, its findings list, the http_ok call in
\* flight, the record check_external's get saw, and whether the call raised.
Idle ==
  [doc |-> 0, i |-> 0, out |-> <<>>, http |-> <<>>, chk |-> <<>>, exc |-> FALSE]

\* The documents of the run.
FileSet == {files[i] : i \in 1..Len(files)}

NoResults == [d \in Docs |-> <<>>]

Finding(path, line, url, link_type, status, reason, http_code, final_url) ==
  [path |-> path, line |-> line, url |-> url, link_type |-> link_type,
   status |-> status, reason |-> reason, http_code |-> http_code,
   final_url |-> final_url]

\* (mutant) a 429 is an error like every other failure.
StatusOfNo429(o) == IF o.ok THEN "ok" ELSE "error"

\* status = "ok" if ok else ("warning" if code == 429 else "error")
StatusOf(o) ==
  IF o.ok THEN "ok" ELSE IF o.code = <<429>> THEN "warning" ELSE "error"

\* (mutant) the Finding's url is the final url of the check.
CheckedFindingFinalUrl(path, line, url, o) ==
  Finding(path, line, IF o.final = <<>> THEN url ELSE o.final[1], "external",
          StatusOf(o), o.reason, o.code, o.final)

CheckedFinding(path, line, url, o) ==
  Finding(path, line, url, "external", StatusOf(o), o.reason, o.code, o.final)

\* ------------------------------------------------- the http_ok harness
\* Status codes the harness answers with: the edges of the 2xx and 3xx
\* ranges, the fallback codes, and other failures.
HarnessCodes == {200, 299, 300, 301, 399, 400, 401, 403, 404, 405, 429, 500, 501}

HarnessResponses ==
  {Resp(code, u) : code \in HarnessCodes, u \in {UA, UB}}
    \cup {Exc("URLError"), Exc("timeout")}

RunIdle ==
  /\ net = NetOf(Resp(200, UA), Resp(200, UA))
  /\ cfg = Config({}, {}, FALSE)
  /\ file = NoData /\ file0 = NoData /\ files = TwoFiles /\ disk = GoodDisk
  /\ cache = NoData /\ now = 0 /\ run = 1
  /\ phase = "start" /\ queue = <<>> /\ wk = [w \in Workers |-> Idle]
  /\ all_findings = <<>> /\ results = NoResults /\ prevResults = NoResults
  /\ requested = {} /\ looked = {} /\ written = {} /\ resolved = {}
  /\ invoked = {} /\ loads = 0 /\ saves = 0

InitHttp ==
  /\ \E u \in {UA, UB}, m \in (0..MaxRedirectsArg) \cup {DefaultMaxRedirects} :
        call = HttpStart(u, m)
  /\ prev = call
  /\ RunIdle

HttpStep ==
  /\ call.ret = <<>>
  /\ \E r \in HarnessResponses : call' = http_ok(call, r)
  /\ prev' = call
  /\ UNCHANGED runVars

NextHttp == HttpStep

SpecHttp == InitHttp /\ [][NextHttp]_vars

\* ------------------------------------------- the check_internal harness
\* The referring documents, targets and anchors check_internal is called
\* with; the anchor is <<>> when the url has no "#", else the text after it
\* in a one-element sequence.
InternalDocs == {<<"a.md">>, <<"other.md">>}

InternalTargets ==
  {<<>>, <<"other.md">>, <<"gone.md">>, <<"docs">>, <<".", "/", "other.md">>}

InternalAnchors ==
  {<<>>, << <<>> >>, << <<"Intro">> >>, << <<"intro">> >>,
   << <<"section", "-", "two">> >>, << <<"Section", " ", "Two">> >>,
   << <<"Section", "-", "Two">> >>, << <<"nope">> >>, << <<"intro", "!">> >>,
   << <<"two">> >>}

InternalUrl(target, anchor) ==
  target \o (IF anchor = <<>> THEN <<>> ELSE <<"#">> \o anchor[1])

InitInternal ==
  /\ \E md \in InternalDocs, t \in InternalTargets, a \in InternalAnchors :
        call = [md |-> md, url |-> InternalUrl(t, a), ret |-> <<>>]
  /\ prev = call
  /\ RunIdle

InternalStep ==
  /\ call.ret = <<>>
  /\ call' = [call EXCEPT !.ret = << check_internal(call.md, call.url) >>]
  /\ prev' = call
  /\ UNCHANGED runVars

NextInternal == InternalStep

SpecInternal == InitInternal /\ [][NextInternal]_vars

\* -------------------------------------------- the normalize_url harness
\* The raw urls normalize_url is called with: a url, blanks in front of it,
\* and behind it up to two of the characters the strips take off.
NormalizeBases ==
  {UA, USlashes, <<"http:", "/", "/", "a.example", "/", "x">>,
   <<"http:", "/", "/", "[bad", "/">>, <<"mailto:", "x@a.example">>,
   <<"other.md">>, <<"#", "Intro">>}

StripChars == {" ", ")", ".", ",", ";"}

NormalizeTails ==
  {<<>>} \cup {<<a>> : a \in StripChars}
         \cup {<<a, b>> : a \in StripChars, b \in StripChars}

NormalizeInputs ==
  {h \o b \o t : h \in {<<>>, <<" ">>}, b \in NormalizeBases, t \in NormalizeTails}

\* call.ret is the result of the last application, call.n their number.
InitNormalize ==
  /\ \E r \in NormalizeInputs : call = [raw |-> r, ret |-> <<>>, n |-> 0]
  /\ prev = call
  /\ RunIdle

\* normalize_url is applied to the raw url, and then to its own result.
NormalizeStep ==
  /\ call.n < 2
  /\ call' = [call EXCEPT
                 !.ret = << normalize_url(IF call.n = 0 THEN call.raw
                                         ELSE call.ret[1]) >>,
                 !.n = @ + 1]
  /\ prev' = call
  /\ UNCHANGED runVars

NextNormalize == NormalizeStep

SpecNormalize == InitNormalize /\ [][NextNormalize]_vars

\* ------------------------------------------------------------ the program
\* (mutant) only a host equal to a deny-list entry is denied.
DeniedHostExact(deny_hosts, host) == host \in deny_hosts

\* deny_hosts and any(host.endswith(d) for d in deny_hosts)
DeniedHost(deny_hosts, host) ==
  deny_hosts # {} /\ \E x \in deny_hosts : endswith(host, x)

\* (mutant) every host is warned about once an allow-list is configured.
NotAllowedAny(allow_hosts, host) == allow_hosts # {}

\* (mutant) the test for a configured allow-list is missing.
NotAllowedUnguarded(allow_hosts, host) ==
  ~ \E a \in allow_hosts : endswith(host, a)

\* allow_hosts and not any(host.endswith(a) for a in allow_hosts)
NotAllowed(allow_hosts, host) ==
  allow_hosts # {} /\ ~ \E a \in allow_hosts : endswith(host, a)

\* (mutant) every thread of the model runs jobs, whatever --workers says.
InPoolAny(c, w) == TRUE

\* Thread w is one of the pool's: ThreadPoolExecutor(max_workers=args.workers).
InPool(c, w) == w <= c.workers

Init ==
  /\ call = HttpStart(UA, 0) /\ prev = call
  /\ \E s \in Setups :
        /\ net = s[1] /\ cfg = s[2] /\ file = s[3] /\ file0 = s[3]
        /\ files = s[4] /\ disk = s[5]
  /\ cache = NoData /\ now = 0 /\ run = 1
  /\ phase = "start" /\ queue = <<>> /\ wk = [w \in Workers |-> Idle]
  /\ all_findings = <<>> /\ results = NoResults /\ prevResults = NoResults
  /\ requested = {} /\ looked = {} /\ written = {} /\ resolved = {}
  /\ invoked = {} /\ loads = 0 /\ saves = 0

\* main up to the submits: the cache is loaded and every document is queued.
\* Content that is not JSON leaves data empty; an array becomes data as it
\* is (cache stands for no record then, and disk.shape tells).
Load ==
  /\ phase = "start"
  /\ phase' = "running"
  /\ cache' = IF disk.shape = "object" THEN file ELSE NoData
  /\ queue' = files
  /\ loads' = loads + 1
  /\ UNCHANGED <<call, prev, net, cfg, file, file0, files, disk, now, run, wk,
                 all_findings, results, prevResults, requested, looked, written,
                 resolved, invoked, saves>>

\* (mutant) a document starts with a placeholder Finding.
NewJobPlaceholder(d) ==
  [Idle EXCEPT !.doc = d, !.i = 1,
               !.out = << Finding(Corpus[d].path, 0, <<>>, "internal", "skip",
                                  Plain("no_links"), <<>>, <<>>) >>]

\* process_file is entered for document d: findings = [].
NewJob(d) == [Idle EXCEPT !.doc = d, !.i = 1]

\* A free worker thread takes the next document and enters process_file.
\* The pool keeps running its queue while main is leaving the with block.
TakeJob(w) ==
  /\ phase \in {"running", "failed"} /\ wk[w].doc = 0 /\ queue # <<>>
  /\ InPool(cfg, w)
  /\ \A v \in Workers : wk[v].doc = 0 => w <= v
  /\ wk' = [wk EXCEPT ![w] = NewJob(Head(queue))]
  /\ queue' = Tail(queue)
  /\ UNCHANGED <<call, prev, net, cfg, file, file0, files, disk, cache, now,
                 run, phase, all_findings, results, prevResults, requested,
                 looked, written, resolved, invoked, loads, saves>>

\* (mutant) --no-verify-rel suppresses the internal links.
SkipsInternalNoVerifyRel(c) == c.external_only \/ ~ c.verify_rel

\* The test of the internal branch: `if not external_only`.
SkipsInternal(c) == c.external_only

\* One pass of process_file's loop, up to the first request of an external
\* check (or to the end of the pass when no request is needed).  When the
\* urlparse of line 232 raises, or Cache.get because data is not a dict, the
\* call ends there.  c is the command line: the arguments main passes on.
Pass(c, w) ==
  /\ wk[w].doc # 0 /\ wk[w].http = <<>> /\ ~ wk[w].exc
  /\ wk[w].i <= Len(Corpus[wk[w].doc].links)
  /\ LET d == Corpus[wk[w].doc]
         l == d.links[wk[w].i]
         url == normalize_url(l.raw)
         u == urlparse(url)
         host == u.hostname
         F(status, reason) ==
           Finding(d.path, l.line, url, "external", status, Plain(reason), <<>>, <<>>)
         emit(fs) ==
           /\ wk' = [wk EXCEPT ![w].out = @ \o fs, ![w].i = @ + 1]
           /\ UNCHANGED <<cache, requested, looked, written, resolved,
                          invoked>>
         warn == IF NotAllowed(c.allow_hosts, host)
                 THEN << F("warning", "not_in_allowlist") >> ELSE <<>>
         cached == cache_get(cache, url, now)
     IN IF ValueError(url)
        THEN /\ wk' = [wk EXCEPT ![w].exc = TRUE]
             /\ UNCHANGED <<cache, requested, looked, written, resolved,
                            invoked>>
        ELSE IF u.scheme \in FORBIDDEN_SCHEMES
        THEN emit(<< F("error", "forbidden_scheme") >>)
        ELSE IF u.scheme \in SKIP_SCHEMES
        THEN emit(<< F("skip", "skipped_scheme") >>)
        ELSE IF u.scheme \in {"http", "https"}
        THEN IF DeniedHost(c.deny_hosts, host)
             THEN emit(<< F("error", "denied_host") >>)
             ELSE IF is_private_host(host)
             THEN emit(warn \o << F("error", "private_or_localhost") >>)
             ELSE IF disk.shape = "array"
             THEN /\ wk' = [wk EXCEPT ![w].out = @ \o warn, ![w].exc = TRUE]
                  /\ looked' = looked \cup {url}
                  /\ UNCHANGED <<cache, requested, written, resolved, invoked>>
             ELSE IF cached # <<>>
             THEN /\ wk' = [wk EXCEPT
                        ![w].out = @ \o warn \o
                           << CheckedFinding(d.path, l.line, url,
                                             CachedOutcome(cached[1])) >>,
                        ![w].i = @ + 1,
                        ![w].chk = <<>>]
                  /\ looked' = looked \cup {url}
                  /\ cache' = check_external_hit(cache, url, now)
                  /\ UNCHANGED <<requested, written, resolved, invoked>>
             ELSE /\ wk' = [wk EXCEPT
                        ![w].out = @ \o warn,
                        ![w].http = << HttpStart(url, DefaultMaxRedirects) >>,
                        ![w].chk = << [url |-> url, rec |-> cache[url]] >>]
                  /\ looked' = looked \cup {url}
                  /\ invoked' = invoked \cup {<<wk[w].doc, wk[w].i>>}
                  /\ UNCHANGED <<cache, requested, written, resolved>>
        ELSE IF ~ SkipsInternal(c)
        THEN LET r == check_internal(d.path, url)
             IN /\ wk' = [wk EXCEPT
                      ![w].out = @ \o
                         << Finding(d.path, l.line, url, "internal",
                                    IF r[1] THEN "ok" ELSE "error", r[2],
                                    <<>>, <<>>) >>,
                      ![w].i = @ + 1]
                /\ resolved' = resolved \cup {<<d.path, url>>}
                /\ UNCHANGED <<cache, requested, looked, written, invoked>>
        ELSE emit(<<>>)
  /\ UNCHANGED <<call, prev, net, cfg, file, file0, files, disk, now, run,
                 phase, queue, all_findings, results, prevResults, loads,
                 saves>>

ProcessLink(w) == Pass(cfg, w)

\* One request of the worker's http_ok call and its answer; when the call
\* returns, check_external puts the outcome and process_file appends the
\* Finding.
Request(w) ==
  /\ wk[w].doc # 0 /\ wk[w].http # <<>>
  /\ LET c == wk[w].http[1]
         d == Corpus[wk[w].doc]
         l == d.links[wk[w].i]
         url == normalize_url(l.raw)
         c2 == http_ok(c, net[<<c.current, c.method>>])
     IN /\ requested' = requested \cup {<<url, c.current, c.method>>}
        /\ IF c2.ret = <<>>
           THEN /\ wk' = [wk EXCEPT ![w].http = <<c2>>]
                /\ UNCHANGED <<cache, written>>
           ELSE /\ cache' = cache_put(cache, url, c2.ret[1], now)
                /\ written' = written \cup {url}
                /\ wk' = [wk EXCEPT
                      ![w].http = <<>>,
                      ![w].chk = <<>>,
                      ![w].out = @ \o << CheckedFinding(d.path, l.line, url, c2.ret[1]) >>,
                      ![w].i = @ + 1]
  /\ UNCHANGED <<call, prev, net, cfg, file, file0, files, disk, now, run,
                 phase, queue, all_findings, results, prevResults, looked,
                 resolved, invoked, loads, saves>>

\* (mutant) the last Finding of the batch is left behind.
extendPartial(list, batch) == list \o SubSeq(batch, 1, Len(batch) - 1)

\* main's all_findings.extend(batch)
extend(list, batch) == list \o batch

\* process_file is over and main, iterating as_completed, takes the future's
\* result: the returned batch is appended to all_findings, or the exception
\* the call ended with is raised in main, which leaves the with block.  Once
\* main has left the loop nobody takes a result.
FinishJob(w) ==
  /\ wk[w].doc # 0 /\ wk[w].http = <<>>
  /\ wk[w].exc \/ wk[w].i > Len(Corpus[wk[w].doc].links)
  /\ wk' = [wk EXCEPT ![w] = Idle]
  /\ IF phase = "running" /\ ~ wk[w].exc
     THEN /\ all_findings' = extend(all_findings, wk[w].out)
          /\ results' = [results EXCEPT ![wk[w].doc] = << wk[w].out >>]
          /\ UNCHANGED phase
     ELSE /\ phase' = "failed"
          /\ UNCHANGED <<all_findings, results>>
  /\ UNCHANGED <<call, prev, net, cfg, file, file0, files, disk, cache, now,
                 run, queue, prevResults, requested, looked, written, resolved,
                 invoked, loads, saves>>

\* (mutant) main stops waiting once the queue is empty.
AllDoneQueueEmpty == queue = <<>>

AllDone == queue = <<>> /\ \A d \in FileSet : results[d] # <<>>

\* What main hands to the annotations and the renderer.
Report == all_findings

\* (mutant) a warning fails the run without --strict too.
ExitCodeWarningsFail(strict) ==
  LET has(st) == \E i \in 1..Len(all_findings) : all_findings[i].status = st
  IN IF has("error") \/ has("warning") THEN 1 ELSE 0

\* main's return value.
ExitCode(strict) ==
  LET has(st) == \E i \in 1..Len(all_findings) : all_findings[i].status = st
  IN IF has("error") \/ (strict /\ has("warning")) THEN 1 ELSE 0

\* The pool is closed and the cache saved, a failure of the write being
\* swallowed; the report is made of all_findings.
Save ==
  /\ phase = "running" /\ AllDone
  /\ file' = IF disk.writable THEN cache ELSE file
  /\ disk' = IF disk.writable THEN [disk EXCEPT !.shape = "object"] ELSE disk
  /\ phase' = "saved"
  /\ saves' = saves + 1
  /\ UNCHANGED <<call, prev, net, cfg, file0, files, cache, now, run, queue, wk,
                 all_findings, results, prevResults, requested, looked, written,
                 resolved, invoked, loads>>

\* The pool's shutdown has waited for every job; the exception leaves main:
\* no save, no report.
Abort ==
  /\ phase = "failed" /\ queue = <<>> /\ \A w \in Workers : wk[w].doc = 0
  /\ phase' = "crashed"
  /\ UNCHANGED <<call, prev, net, cfg, file, file0, files, disk, cache, now,
                 run, queue, wk, all_findings, results, prevResults, requested,
                 looked, written, resolved, invoked, loads, saves>>

\* The program is started again over the same corpus and cache file.
NextRun ==
  /\ phase = "saved" /\ run < MaxRuns
  /\ run' = run + 1
  /\ phase' = "start"
  /\ cache' = NoData
  /\ prevResults' = results
  /\ results' = NoResults
  /\ all_findings' = <<>>
  /\ requested' = {} /\ looked' = {} /\ resolved' = {}
  /\ invoked' = {} /\ loads' = 0 /\ saves' = 0
  /\ UNCHANGED <<call, prev, net, cfg, file, file0, files, disk, now, queue, wk,
                 written>>

\* Time passes.
Tick ==
  /\ now < MaxTime /\ phase = "running"
  /\ now' = now + 1
  /\ UNCHANGED <<call, prev, net, cfg, file, file0, files, disk, cache, run,
                 phase, queue, wk, all_findings, results, prevResults,
                 requested, looked, written, resolved, invoked, loads, saves>>

Next ==
  \/ Load
  \/ \E w \in Workers : TakeJob(w)
  \/ \E w \in Workers : ProcessLink(w)
  \/ \E w \in Workers : Request(w)
  \/ \E w \in Workers : FinishJob(w)
  \/ Save
  \/ Abort
  \/ NextRun
  \/ Tick

Spec == Init /\ [][Next]_vars

\* ------------------------------------------------------------ http_ok claims
Is2xx(r) == r.kind = "resp" /\ 200 <= r.code /\ r.code < 300

Is3xx(r) == r.kind = "resp" /\ 300 <= r.code /\ r.code < 400

Stepped == call.nreq > 0

LastResp == call.last[1]

RedirectLoop(c) == << Outcome(FALSE, <<>>, <<c.current>>, LoopReason) >>

\* C5: a 2xx met after k = seen redirects is requested only when
\* k <= max_redirects and then gives ok=true with the 2xx response's url as
\* final url; once more than max_redirects redirects were followed the call
\* returns (false, none, current, redirect_loop) and nothing more is requested;
\* redirect_loop is returned in no other case.  HEAD and GET alike.
C5_RedirectChain ==
  /\ Stepped => prev.ret = <<>> /\ prev.seen <= prev.max
  /\ (Stepped /\ Is2xx(LastResp)) =>
        /\ call.seen = prev.seen
        /\ call.ret = << Outcome(TRUE, <<LastResp.code>>, <<LastResp.url>>, OkReason) >>
  /\ (Stepped /\ Is3xx(LastResp)) =>
        /\ call.seen = prev.seen + 1
        /\ call.current = LastResp.url
        /\ call.method = prev.method
        /\ call.ret = IF call.seen <= call.max THEN <<>> ELSE RedirectLoop(call)
  /\ call.seen > call.max => call.ret = RedirectLoop(call)
  /\ (call.ret # <<>> /\ call.ret[1].reason = LoopReason) => call.seen > call.max

\* 301, 301, 200 with max_redirects = 5 is ok under GET; with max_redirects = 1
\* the second 301 ends the call with redirect_loop.
C5_Witness ==
  \/ /\ call.max = DefaultMaxRedirects /\ call.seen = 2 /\ call.method = "GET"
     /\ call.ret # <<>> /\ call.ret[1].ok /\ call.ret[1].final = <<UB>>
  \/ /\ call.max = 1 /\ call.seen = 2 /\ call.ret = RedirectLoop(call)
     /\ call.nreq = 2

\* C6: a HEAD answered with 400, 401, 403, 405 or 501 is followed by a GET to
\* the same current url with the redirect counter unchanged, whether or not
\* redirects were followed before; a 2xx answer to a GET gives ok=true.
C6_HeadFallback ==
  /\ (Stepped /\ LastResp.kind = "resp" /\ LastResp.code \in FallbackCodes
        /\ prev.method = "HEAD") =>
        /\ call.method = "GET"
        /\ call.current = prev.current
        /\ call.seen = prev.seen
        /\ call.ret = <<>>
  /\ (Stepped /\ Is2xx(LastResp) /\ prev.method = "GET") =>
        call.ret # <<>> /\ call.ret[1].ok

\* A 405 under HEAD after a redirect, then the GET answered 2xx.
C6_Witness ==
  /\ Stepped /\ Is2xx(LastResp) /\ prev.method = "GET" /\ prev.seen = 1
  /\ prev.last # <<>> /\ prev.last[1].kind = "resp" /\ prev.last[1].code = 405
  /\ call.ret # <<>> /\ call.ret[1].ok

\* C7: a call issues at most max_redirects + 2 requests; the method never goes
\* back from GET to HEAD and the redirect counter never decreases; while the
\* loop runs fewer than max_redirects + 2 requests were issued.
C7_BoundedRequests ==
  /\ call.nreq <= call.max + 2
  /\ call.ret = <<>> => call.nreq <= call.max + 1
  /\ prev.method = "GET" => call.method = "GET"
  /\ call.seen >= prev.seen
  /\ Stepped => call.nreq = prev.nreq + 1

C7_Witness ==
  call.nreq = call.max + 2 /\ call.ret # <<>> /\ call.max = MaxRedirectsArg

\* C8: a transport failure under HEAD is followed by a GET to the same current
\* url; a transport failure under GET ends the call with
\* (false, none, none, <name of the failure>), also after redirects.
C8_TransportFailure ==
  /\ (Stepped /\ LastResp.kind = "exc" /\ prev.method = "HEAD") =>
        /\ call.method = "GET"
        /\ call.current = prev.current
        /\ call.seen = prev.seen
        /\ call.ret = <<>>
  /\ (Stepped /\ LastResp.kind = "exc" /\ prev.method = "GET") =>
        call.ret = << Outcome(FALSE, <<>>, <<>>, ExcReason(LastResp.name)) >>

\* The HEAD failed after a redirect, and the GET retry failed too.
C8_Witness ==
  /\ Stepped /\ LastResp.kind = "exc" /\ prev.method = "GET" /\ prev.seen = 1
  /\ prev.last # <<>> /\ prev.last[1].kind = "exc"
  /\ call.nreq = 3 /\ call.ret # <<>>

\* ------------------------------------------------------ the program's claims
Last(q) == q[Len(q)]

\* Worker w is in process_file at the top of a pass of its loop.
AtLink(w) ==
  /\ wk[w].doc # 0 /\ wk[w].http = <<>>
  /\ wk[w].i <= Len(Corpus[wk[w].doc].links)

CurUrl(w) == normalize_url(Corpus[wk[w].doc].links[wk[w].i].raw)

CurHost(w) == urlparse(CurUrl(w)).hostname

IsHttp(w) == urlparse(CurUrl(w)).scheme \in {"http", "https"}

Denied(w) ==
  cfg.deny_hosts # {} /\ \E x \in cfg.deny_hosts : endswith(CurHost(w), x)

\* The pass worker w is about to make calls check_external.
CallsCheckExternal(w) ==
  /\ AtLink(w) /\ ~ ValueError(CurUrl(w))
  /\ IsHttp(w) /\ ~ Denied(w) /\ ~ is_private_host(CurHost(w))

\* The cache holds a record for url that is at most max_age old.
FreshRecord(url) == cache[url] # <<>> /\ now - cache[url][1].ts <= MaxAge

\* The step is worker w's.
Moved(w) == wk'[w] # wk[w]

\* Finding f reports the tuple (ok, code, final, reason).
Reports(f, ok, code, final, reason) ==
  /\ (f.status = "ok") = ok
  /\ f.http_code = code /\ f.final_url = final /\ f.reason = reason

Prefixed(reason) == [reason EXCEPT !.text = <<"cached:">> \o @]

\* C1 as claimed: a check_external call that finds a fresh record issues no
\* request and returns the stored tuple, the reason unchanged.
C1_ReasonUnchanged ==
  [][\A w \in Workers :
       (CallsCheckExternal(w) /\ FreshRecord(CurUrl(w)) /\ Moved(w)) =>
          LET rec == cache[CurUrl(w)][1]
          IN /\ wk'[w].http = <<>> /\ requested' = requested
             /\ wk'[w].i = wk[w].i + 1
             /\ Reports(Last(wk'[w].out), rec.ok, rec.code, rec.final, rec.reason)]_vars

\* C1, amended: a check_external call that finds a fresh record issues no
\* request and changes no record; it returns the stored ok, code and final
\* url, and as reason the stored reason with "cached:" put in front.
C1_CachedHit ==
  [][\A w \in Workers :
       (CallsCheckExternal(w) /\ FreshRecord(CurUrl(w)) /\ Moved(w)) =>
          LET rec == cache[CurUrl(w)][1]
          IN /\ wk'[w].http = <<>> /\ requested' = requested /\ cache' = cache
             /\ wk'[w].i = wk[w].i + 1
             /\ Reports(Last(wk'[w].out), rec.ok, rec.code, rec.final,
                        Prefixed(rec.reason))]_vars

\* A worker has just reported a failure from a record of the cache.
C1_Witness ==
  \E w \in Workers :
     /\ wk[w].out # <<>>
     /\ Last(wk[w].out).reason = Prefixed(HttpReason(404))
     /\ Last(wk[w].out).http_code = <<404>>
     /\ Last(wk[w].out).url = UA /\ FreshRecord(UA)

\* ---- two runs
RECURSIVE Flat(_, _)
\* The Findings of the documents 1..n of res, one document after the other.
Flat(res, n) ==
  IF n = 0 THEN <<>>
  ELSE Flat(res, n - 1) \o (IF res[n] = <<>> THEN <<>> ELSE res[n][1])

Count(q, f) == Cardinality({i \in 1..Len(q) : q[i] = f})

SameMultiset(q1, q2) ==
  /\ Len(q1) = Len(q2)
  /\ \A i \in 1..Len(q1) : Count(q1, q1[i]) = Count(q2, q1[i])

\* The urls whose check gave ok in the run with results res.
OkUrls(res) ==
  LET q == Flat(res, Len(Corpus))
  IN {q[i].url : i \in {j \in 1..Len(q) : q[j].status = "ok" /\ q[j].link_type = "external"}}

\* The second run has finished its jobs, the first run's save was written,
\* and every record of the cache file the second run started from is still
\* at most max_age old.
SecondRunDone ==
  /\ run = 2 /\ phase = "running" /\ AllDone /\ disk.writable
  /\ \A k \in NetUrls : file[k] # <<>> => now - file[k][1].ts <= MaxAge

\* C2 as claimed: the second run's Findings are the first run's, field for
\* field, and the second run requests nothing for a url that was ok before.
C2_IdenticalFindings ==
  SecondRunDone =>
    /\ SameMultiset(Flat(prevResults, Len(Corpus)), Flat(results, Len(Corpus)))
    /\ \A r \in requested : r[1] \notin OkUrls(prevResults)

\* The Finding came out of check_external.
Checked(f) ==
  /\ f.link_type = "external"
  /\ f.reason \notin {Plain("forbidden_scheme"), Plain("skipped_scheme"),
                      Plain("denied_host"), Plain("not_in_allowlist"),
                      Plain("private_or_localhost")}

\* What the second run reports for the occurrence the first run reported f1
\* for: the reason of a checked link is the stored one behind "cached:".
SecondFinding(f1) ==
  IF Checked(f1) /\ Head(f1.reason.text) # "cached:"
  THEN [f1 EXCEPT !.reason = Prefixed(f1.reason)] ELSE f1

\* No record the first run started from was replaced during the first run.
FirstRunKeptRecords == \A k \in NetUrls : file0[k] # <<>> => file[k] = file0[k]

\* C2, amended: provided no record the first run started from expired and
\* was replaced during the first run, the second run reports for every
\* occurrence the Finding of the first run with the same path, line, url,
\* link_type, status, http_code and final_url; the reason is the same too,
\* except that the reason of a checked link is the stored reason behind
\* "cached:"; and the second run issues no request at all.
C2_SecondRun ==
  (SecondRunDone /\ FirstRunKeptRecords) =>
    /\ \A d \in FileSet :
         /\ Len(results[d][1]) = Len(prevResults[d][1])
         /\ \A i \in 1..Len(results[d][1]) :
              results[d][1][i] = SecondFinding(prevResults[d][1][i])
    /\ requested = {}

\* The second run has served a failure and a success from the cache.
C2_Witness ==
  /\ SecondRunDone /\ FirstRunKeptRecords /\ {1, 2} \subseteq FileSet
  /\ \E i \in 1..Len(results[1][1]) :
        /\ results[1][1][i].reason = Prefixed(HttpReason(429))
        /\ prevResults[1][1][i].reason = HttpReason(429)
  /\ \E i \in 1..Len(results[2][1]) :
        /\ results[2][1][i].reason = Prefixed(OkReason)
        /\ results[2][1][i].url = UZero

\* ---- cold and warm
RECURSIVE RunHttp(_)
\* The outcome of a whole http_ok call c against the network.
RunHttp(c) ==
  IF c.ret # <<>> THEN c.ret[1]
  ELSE RunHttp(http_ok(c, net[<<c.current, c.method>>]))

\* What a check of url gives when the cache holds nothing for it.
Cold(url) == RunHttp(HttpStart(url, DefaultMaxRedirects))

\* C3: a check served from a fresh record that an earlier check of the same
\* url wrote reports the status, and the ok flag, that a check of the url
\* against the network reports when the cache is empty: ok, warning (429)
\* and error alike.
C3_ColdWarm ==
  [][\A w \in Workers :
       (CallsCheckExternal(w) /\ FreshRecord(CurUrl(w)) /\ Moved(w)
          /\ CurUrl(w) \in written) =>
          /\ Last(wk'[w].out).status = StatusOf(Cold(CurUrl(w)))
          /\ (Last(wk'[w].out).status = "ok") = Cold(CurUrl(w)).ok
          /\ cache[CurUrl(w)][1].ok = Cold(CurUrl(w)).ok]_vars

\* A 429 written by an earlier check has been served from the cache as a
\* warning.
C3_Witness ==
  \E w \in Workers :
     /\ wk[w].out # <<>> /\ UA \in written
     /\ Last(wk[w].out).reason = Prefixed(HttpReason(429))
     /\ Last(wk[w].out).status = "warning"
     /\ Cold(UA).code = <<429>>

\* ---- expiry
\* Worker w's check_external call returns in this step from http_ok.
Returns(w) ==
  /\ wk[w].doc # 0 /\ wk[w].http # <<>>
  /\ wk'[w].doc = wk[w].doc /\ wk'[w].http = <<>>

\* C4: a check_external call that found a record older than max_age requests
\* the url and then holds in the cache the outcome of that check with the
\* time of the put as timestamp, which is later than the expired record's.
C4_ExpiredRecord ==
  [][\A w \in Workers :
       /\ (CallsCheckExternal(w) /\ Moved(w) /\ cache[CurUrl(w)] # <<>>
             /\ now - cache[CurUrl(w)][1].ts > MaxAge) =>
             /\ wk'[w].http = << HttpStart(CurUrl(w), DefaultMaxRedirects) >>
             /\ wk'[w].chk = << [url |-> CurUrl(w), rec |-> cache[CurUrl(w)]] >>
       /\ (Returns(w) /\ wk[w].chk[1].rec # <<>>) =>
             LET url == wk[w].chk[1].url
                 f == Last(wk'[w].out)
             IN /\ <<url, url, "HEAD">> \in requested'
                /\ cache'[url] # <<>>
                /\ Reports(f, cache'[url][1].ok, cache'[url][1].code,
                           cache'[url][1].final, cache'[url][1].reason)
                /\ cache'[url][1] = Record(Cold(url), now)
                /\ cache'[url][1].ts > wk[w].chk[1].rec[1].ts]_vars

\* The expired record the first run found has been replaced.
C4_Witness ==
  /\ file0[UA] # <<>> /\ cache[UA] # <<>> /\ UA \in written
  /\ cache[UA][1].ts > file0[UA][1].ts + MaxAge
  /\ cache[UA][1].ok # file0[UA][1].ok

\* ---- private hosts
\* The hosts the private-host rule names: literal loopback, private and
\* link-local addresses, and localhost, localhost.localdomain, 0.0.0.0.
NamedPrivate(host) ==
  host \in {"127.0.0.1", "10.0.0.5", "172.16.9.1", "192.168.1.1", "169.254.1.1",
            "::1", "fd00::1", "fe80::1",
            "localhost", "localhost.localdomain", "0.0.0.0"}

\* C9: an http(s) link to a private host gives error / private_or_localhost,
\* and no request, no Cache.get and no Cache.put is made for it.
C9_PrivateHost ==
  [][\A w \in Workers :
       (AtLink(w) /\ IsHttp(w) /\ NamedPrivate(CurHost(w)) /\ Moved(w)) =>
          /\ wk'[w].http = <<>> /\ wk'[w].i = wk[w].i + 1
          /\ Len(wk'[w].out) > Len(wk[w].out)
          /\ Last(wk'[w].out).status = "error"
          /\ Last(wk'[w].out).reason = Plain("private_or_localhost")
          /\ requested' = requested /\ looked' = looked /\ cache' = cache]_vars

\* C10: no request goes to a host the private-host test rejects, the requests
\* to the targets of redirects included.
C10_NoPrivateRequest ==
  \A r \in requested : ~ is_private_host(urlparse(r[2]).hostname)

\* ------------------------------------------------------ scheme and host policy
\* The occurrence worker w is at.
CurLink(w) == Corpus[wk[w].doc].links[wk[w].i]

CurDoc(w) == Corpus[wk[w].doc]

\* Worker w is at the top of a pass whose url the parser accepts, with a
\* scheme of schemes.
AtScheme(w, schemes) ==
  /\ AtLink(w) /\ ~ wk[w].exc /\ ~ ValueError(CurUrl(w))
  /\ urlparse(CurUrl(w)).scheme \in schemes

\* The pass of worker w appends exactly the Findings fs, finishes the
\* occurrence, and touches neither the network, nor the cache, nor the file
\* system.
OnlyEmits(w, fs) ==
  /\ wk'[w] = [wk[w] EXCEPT !.out = @ \o fs, !.i = @ + 1]
  /\ UNCHANGED <<cache, requested, looked, written, resolved>>

\* C11: a link whose scheme is javascript, file or data yields the one
\* Finding error / forbidden_scheme, whatever the cache, the network and the
\* allow and deny lists are, and nothing is requested, looked up in the
\* cache, put into it or resolved on the file system for it.
C11_ForbiddenScheme ==
  [][\A w \in Workers :
       (AtScheme(w, {"javascript", "file", "data"}) /\ Moved(w)) =>
          OnlyEmits(w, << Finding(CurDoc(w).path, CurLink(w).line, CurUrl(w),
                                 "external", "error", Plain("forbidden_scheme"),
                                 <<>>, <<>>) >>)]_vars

\* A javascript link was reported while the deny-list was set and the cache
\* file had a record.
C11_Witness ==
  /\ cfg.deny_hosts # {} /\ file0[UA] # <<>> /\ results[2] # <<>>
  /\ \E i \in 1..Len(results[2][1]) :
        /\ results[2][1][i].reason = Plain("forbidden_scheme")
        /\ results[2][1][i].status = "error"
        /\ Head(results[2][1][i].url) = "javascript:"

\* C12: a link whose scheme is mailto or tel yields exactly one Finding, with
\* status skip, and nothing is requested, looked up in the cache, put into it
\* or resolved on the file system for it.
C12_SkipScheme ==
  [][\A w \in Workers :
       (AtScheme(w, {"mailto", "tel"}) /\ Moved(w)) =>
          OnlyEmits(w, << Finding(CurDoc(w).path, CurLink(w).line, CurUrl(w),
                                 "external", "skip", Plain("skipped_scheme"),
                                 <<>>, <<>>) >>)]_vars

\* A tel link has been skipped by a job, after a mailto link was skipped in
\* a document that also had internal and external links checked.
C12_Witness ==
  /\ results[2] # <<>> /\ resolved # {} /\ requested # {}
  /\ \E i \in 1..Len(results[2][1]) :
        /\ results[2][1][i].status = "skip"
        /\ Head(results[2][1][i].url) = "mailto:"
  /\ \E w \in Workers :
        /\ wk[w].doc = 3 /\ wk[w].out # <<>>
        /\ wk[w].out[1].status = "skip" /\ Head(wk[w].out[1].url) = "tel:"

\* ------------------------------------------------------- failures and counts
\* C13: no link aborts the run.  Whatever the raw urls are, main does not
\* end by an exception in place of aggregating every document's Findings and
\* saving the cache.
C13_NoLinkAborts == phase # "crashed"

\* Document d has an occurrence the url parser rejects.
Rejected(d) ==
  \E i \in 1..Len(Corpus[d].links) : ValueError(normalize_url(Corpus[d].links[i].raw))

\* C14 as claimed: the Findings of a document are as many as its
\* occurrences, the i-th with the line of the i-th occurrence.
C14_OnePerOccurrence ==
  \A d \in FileSet :
    results[d] # <<>> =>
      /\ Len(results[d][1]) = Len(Corpus[d].links)
      /\ \A i \in 1..Len(Corpus[d].links) :
           results[d][1][i].line = Corpus[d].links[i].line

\* The number of Findings the command line gives the occurrence l: none for
\* a relative link under external_only, two for an http(s) link that is not
\* denied and matches no suffix of a configured allow-list, one otherwise.
FindingsOf(l) ==
  LET u == urlparse(normalize_url(l.raw))
  IN IF u.scheme \in {"javascript", "file", "data", "mailto", "tel"} THEN 1
     ELSE IF u.scheme \in {"http", "https"}
     THEN IF \E x \in cfg.deny_hosts : endswith(u.hostname, x) THEN 1
          ELSE IF cfg.allow_hosts # {}
                  /\ \A a \in cfg.allow_hosts : ~ endswith(u.hostname, a)
          THEN 2 ELSE 1
     ELSE IF cfg.external_only THEN 0 ELSE 1

RECURSIVE LinesOf(_, _)
\* The line numbers of the Findings of the first n occurrences of document d.
LinesOf(d, n) ==
  IF n = 0 THEN <<>>
  ELSE LinesOf(d, n - 1)
         \o [j \in 1..FindingsOf(Corpus[d].links[n]) |-> Corpus[d].links[n].line]

\* C14, amended: a document's Findings are, occurrence after occurrence and
\* each with its occurrence's line: none for a relative link under
\* external_only, two (the allow-list warning, then the check's Finding) for
\* an http(s) link that is not denied and matches no suffix of a configured
\* allow-list, and exactly one otherwise; a document with an occurrence the
\* url parser rejects returns no Findings at all.
C14_FindingsPerOccurrence ==
  \A d \in FileSet :
    /\ Rejected(d) => results[d] = <<>>
    /\ results[d] # <<>> =>
         [i \in 1..Len(results[d][1]) |-> results[d][1][i].line]
           = LinesOf(d, Len(Corpus[d].links))

\* A document has returned more Findings than it has occurrences.
C14_Witness ==
  /\ cfg.allow_hosts # {} /\ results[2] # <<>>
  /\ Len(results[2][1]) > Len(Corpus[2].links)

\* ---- deny-list and allow-list
\* Worker w is at the top of a pass for an http(s) url the parser accepts.
AtHttp(w) == AtScheme(w, {"http", "https"})

\* The host of w's url ends with a suffix of the deny-list.
HostDenied(w) == \E x \in cfg.deny_hosts : endswith(CurHost(w), x)

\* The host of w's url ends with no suffix of the allow-list.
HostUnlisted(w) == \A a \in cfg.allow_hosts : ~ endswith(CurHost(w), a)

\* What process_file appends for a policy decision on w's occurrence.
PolicyFinding(w, status, reason) ==
  Finding(CurDoc(w).path, CurLink(w).line, CurUrl(w), "external", status,
          Plain(reason), <<>>, <<>>)

\* C15: an http(s) link whose host ends with a deny-list suffix yields the
\* one Finding error / denied_host and nothing else happens for it: no
\* allow-list warning, no private-host Finding, no cache get or put and no
\* request, also when the cache holds a fresh ok record of the url.
C15_DeniedHost ==
  [][\A w \in Workers :
       (AtHttp(w) /\ HostDenied(w) /\ Moved(w)) =>
          OnlyEmits(w, << PolicyFinding(w, "error", "denied_host") >>)]_vars

\* A denied url was reported while the cache held a fresh ok record of it
\* and the allow-list did not list its host.
C15_Witness ==
  /\ results[1] # <<>>
  /\ results[1][1] = << Finding(<<"a.md">>, 1, UA, "external", "error",
                                Plain("denied_host"), <<>>, <<>>) >>
  /\ cfg.allow_hosts = {"b.example"}
  /\ FreshRecord(UA) /\ cache[UA][1].ok
  /\ requested = {} /\ looked = {}

\* C16: for an http(s) link that is not denied and whose host matches no
\* suffix of a configured allow-list, the warning not_in_allowlist is
\* appended and the check goes on in the same pass: a private host gets its
\* error Finding, any other host has its cache lookup made and then either
\* the cached outcome reported or the http_ok call started.  With an empty
\* allow-list no pass appends that warning.
C16_AllowList ==
  [][\A w \in Workers :
       /\ (AtHttp(w) /\ ~ HostDenied(w) /\ cfg.allow_hosts # {}
              /\ HostUnlisted(w) /\ Moved(w)) =>
            LET warned == wk[w].out \o << PolicyFinding(w, "warning", "not_in_allowlist") >>
            IN IF is_private_host(CurHost(w))
               THEN /\ wk'[w].out =
                         warned \o << PolicyFinding(w, "error", "private_or_localhost") >>
                    /\ wk'[w].i = wk[w].i + 1
               ELSE /\ looked' = looked \cup {CurUrl(w)}
                    /\ IF FreshRecord(CurUrl(w))
                       THEN /\ Len(wk'[w].out) = Len(warned) + 1
                            /\ SubSeq(wk'[w].out, 1, Len(warned)) = warned
                            /\ Checked(Last(wk'[w].out))
                       ELSE /\ wk'[w].out = warned
                            /\ wk'[w].http = << HttpStart(CurUrl(w), DefaultMaxRedirects) >>
       /\ (cfg.allow_hosts = {} /\ Moved(w)) =>
            \A i \in 1..Len(wk'[w].out) :
               wk'[w].out[i].reason # Plain("not_in_allowlist")]_vars

\* An unlisted public url was warned about and then requested, the request's
\* outcome following the warning; an unlisted private host got the warning
\* and its error.
C16_Witness ==
  /\ cfg.allow_hosts = {"b.example"} /\ cfg.deny_hosts = {}
  /\ results[2] # <<>>
  /\ results[2][1][1].reason = Plain("not_in_allowlist")
  /\ results[2][1][1].url = UA
  /\ results[2][1][2].url = UA /\ results[2][1][2].http_code = <<404>>
  /\ \E r \in requested : r[1] = UA
  /\ \E i \in 1..(Len(results[2][1]) - 1) :
        /\ results[2][1][i].reason = Plain("not_in_allowlist")
        /\ results[2][1][i + 1].reason = Plain("private_or_localhost")

\* ------------------------------------------------------------ status mapping
\* The pass of worker w returns from check_external with a cached record.
HitReturn(w) == CallsCheckExternal(w) /\ FreshRecord(CurUrl(w)) /\ Moved(w)

\* The step is the last one of worker w's http_ok call: check_external puts
\* the outcome and returns it.
MissReturn(w) == wk[w].doc # 0 /\ wk[w].http # <<>> /\ wk'[w].http = <<>>

\* status is the status the claim gives the outcome (ok, code).
Mapped(status, ok, code) ==
  /\ (status = "ok") <=> ok
  /\ ~ ok => ((status = "warning") <=> (code = <<429>>))
  /\ (~ ok /\ code # <<429>>) => status = "error"

\* C17: the Finding of a checked external link has status ok iff the
\* outcome of the check has ok = true; when ok = false it is warning iff the
\* outcome's code is 429 and error otherwise; and so for an outcome served
\* from the cache (the cached record) as for one just obtained from the
\* network (the record put).
C17_StatusMapping ==
  [][\A w \in Workers :
       /\ HitReturn(w) =>
            /\ Len(wk'[w].out) > Len(wk[w].out)
            /\ Mapped(Last(wk'[w].out).status,
                      cache[CurUrl(w)][1].ok, cache[CurUrl(w)][1].code)
       /\ MissReturn(w) =>
            /\ Len(wk'[w].out) = Len(wk[w].out) + 1
            /\ Mapped(Last(wk'[w].out).status,
                      cache'[CurUrl(w)][1].ok, cache'[CurUrl(w)][1].code)
            /\ Last(wk'[w].out).http_code = cache'[CurUrl(w)][1].code]_vars

\* A 429 obtained from the network and then served from the cache was a
\* warning both times.
C17_Witness ==
  /\ run = 2 /\ results[1] # <<>>
  /\ prevResults[1][1][1].status = "warning"
  /\ prevResults[1][1][1].reason = HttpReason(429)
  /\ results[1][1][1].status = "warning"
  /\ results[1][1][1].reason = Prefixed(HttpReason(429))

\* ---------------------------------------------------------------- the pool
\* The documents whose batch main has taken.
Collected == {d \in FileSet : results[d] # <<>>}

\* The orders main may have taken them in.
Orders ==
  {o \in [1..Cardinality(Collected) -> Collected] :
     \A i, j \in DOMAIN o : o[i] = o[j] => i = j}

RECURSIVE Batches(_, _)
\* The batches of the first n documents of order o, one after the other.
Batches(o, n) == IF n = 0 THEN <<>> ELSE Batches(o, n - 1) \o results[o[n]][1]

\* C18: under every interleaving of the jobs, all_findings is made of whole
\* documents: it is the batches of the finished jobs main has taken, each
\* batch complete and contiguous, one after another, and within a batch the
\* Findings are in the order of their lines; of a job still running it holds
\* nothing.
C18_WholeDocuments ==
  /\ \E o \in Orders : all_findings = Batches(o, Cardinality(Collected))
  /\ \A d \in Collected :
       \A i \in 1..(Len(results[d][1]) - 1) :
          results[d][1][i].line <= results[d][1][i + 1].line

\* The second document's batch was taken before the first's, while both
\* jobs had been running together.
C18_Witness ==
  /\ Collected = {1, 2}
  /\ all_findings = results[2][1] \o results[1][1]
  /\ Len(results[2][1]) > 1

\* C19: the orchestrator finishes only with the Findings of every submitted
\* document in the aggregate, each batch once.
C19_CompleteAggregate ==
  phase \in {"saved", "crashed"} =>
    /\ Collected = FileSet
    /\ \E o \in Orders : all_findings = Batches(o, Len(files))

\* ---- concurrent checks of one url
\* C20: whenever a job's check of a url ends, the cache holds for the url
\* the complete record of that job's outcome with the time of the put,
\* whatever other jobs checking the same url have put or will put, and the
\* job's Finding is the one of its own outcome; while the pool runs a record
\* changes in no other way.
C20_LastWriterWins ==
  [][/\ \A w \in Workers :
          MissReturn(w) =>
            /\ cache'[CurUrl(w)] = << Record(Cold(CurUrl(w)), now) >>
            /\ Last(wk'[w].out) =
                 CheckedFinding(CurDoc(w).path, CurLink(w).line, CurUrl(w),
                                Cold(CurUrl(w)))
     /\ \A u \in NetUrls :
          (phase = "running" /\ cache'[u] # cache[u]) =>
             \E w \in Workers : MissReturn(w) /\ CurUrl(w) = u]_vars

\* Two jobs have checked the same cold url at the same time: neither found
\* a record, both asked the network, and the cache holds the one record.
C20_Witness ==
  /\ run = 1 /\ now = 0 /\ file0 = NoData
  /\ results[1] # <<>> /\ results[2] # <<>>
  /\ results[1][1][1] = CheckedFinding(<<"a.md">>, 1, UA, Cold(UA))
  /\ results[2][1][1] = CheckedFinding(<<"b.md">>, 1, UA, Cold(UA))
  /\ cache[UA] = << Record(Cold(UA), 0) >>

\* ---------------------------------------------------------- parser failures
\* C29: a raw url the url parser cannot parse is treated as an internal
\* link: the pass does not raise and appends one internal Finding, the
\* result of check_internal for it.
C29_UnparsableIsInternal ==
  [][\A w \in Workers :
       (AtLink(w) /\ ~ wk[w].exc /\ ValueError(CurUrl(w)) /\ Moved(w)) =>
          /\ ~ wk'[w].exc
          /\ Len(wk'[w].out) = Len(wk[w].out) + 1
          /\ Last(wk'[w].out).link_type = "internal"
          /\ Last(wk'[w].out).url = CurUrl(w)]_vars

\* ------------------------------------------------------------------ report
\* The place of a document path in the order of paths.
PathOrder(path) == CHOOSE d \in Docs : Corpus[d].path = path

\* C23: the Findings handed to the report are sorted by document path and
\* then by line, whatever the order the jobs completed in.
C23_SortedReport ==
  phase = "saved" =>
    \A i, j \in 1..Len(Report) :
       i < j =>
         \/ PathOrder(Report[i].path) < PathOrder(Report[j].path)
         \/ /\ Report[i].path = Report[j].path
            /\ Report[i].line <= Report[j].line

\* ------------------------------------------------------------ cache file
\* C24: a cache file whose content cannot be used does not make the run
\* fail: no job raises and main is not aborted.
C24_UnusableCacheFile ==
  (run = 1 /\ disk.shape \in {"garbage", "array"}) =>
     /\ \A w \in Workers : ~ wk[w].exc
     /\ phase \notin {"failed", "crashed"}

\* ---------------------------------------------------------------- Findings
\* The Findings that exist: those of the running jobs and the returned ones.
FindingsOfDoc(d) ==
  {results[d][1][i] : i \in 1..(IF results[d] = <<>> THEN 0 ELSE Len(results[d][1]))}
    \cup UNION {{wk[w].out[i] : i \in 1..Len(wk[w].out)} :
                  w \in {v \in Workers : wk[v].doc = d}}

\* C25: the url of every Finding is the normalized raw url of an occurrence
\* of its document on its line; an external Finding has a non-empty reason
\* or an http code; status and link_type are of their enumerations.
C25_FindingFields ==
  \A d \in Docs : \A f \in FindingsOfDoc(d) :
     /\ f.path = Corpus[d].path
     /\ \E i \in 1..Len(Corpus[d].links) :
           /\ Corpus[d].links[i].line = f.line
           /\ f.url = normalize_url(Corpus[d].links[i].raw)
     /\ f.link_type = "external" => (f.reason.text # <<>> \/ f.http_code # <<>>)
     /\ f.status \in {"ok", "warning", "error", "skip"}
     /\ f.link_type \in {"external", "internal"}

\* A document has returned a Finding whose url differs from the raw url, the
\* Finding of a transport failure without code, and internal Findings.
C25_Witness ==
  /\ results[2] # <<>>
  /\ results[2][1][1].url = UA /\ Corpus[2].links[1].raw # UA
  /\ results[2][1][1].http_code = <<>>
  /\ results[2][1][1].reason = ExcReason("URLError")
  /\ \E i \in 1..Len(results[2][1]) : results[2][1][i].link_type = "internal"

\* C26: the job of a document without occurrences returns the empty list,
\* and requests nothing, puts nothing and looks nothing up.
C26_NoLinks ==
  [][\A w \in Workers :
       (wk[w].doc # 0 /\ Corpus[wk[w].doc].links = <<>> /\ Moved(w)) =>
          /\ wk[w].out = <<>> /\ wk'[w] = Idle
          /\ UNCHANGED <<cache, requested, written, looked, resolved>>
          /\ phase = "running" =>
                /\ results'[wk[w].doc] = << <<>> >>
                /\ all_findings' = all_findings]_vars

\* The job of d.md has returned and main has taken its empty batch.
C26_Witness ==
  /\ results[4] = << <<>> >> /\ phase = "running"
  /\ \A w \in Workers : wk[w].doc # 4

\* ---- Cache.get
\* C27: the get of a check finds the record iff there is one and
\* now - timestamp <= max_age, the record exactly max_age old included, and
\* the outcome reported is then the record's; a get changes no record, and
\* while the pool runs a record, stale or not, changes only by the put of a
\* check of its url.
C27_GetFrame ==
  [][/\ \A w \in Workers :
          (CallsCheckExternal(w) /\ disk.shape # "array" /\ Moved(w)) =>
             LET url == CurUrl(w)
                 hit == wk'[w].http = <<>>
             IN /\ cache' = cache
                /\ hit <=> (cache[url] # <<>> /\ now - cache[url][1].ts <= MaxAge)
                /\ ~ hit => wk'[w].http = << HttpStart(url, DefaultMaxRedirects) >>
                /\ hit => /\ Last(wk'[w].out).http_code = cache[url][1].code
                          /\ Last(wk'[w].out).final_url = cache[url][1].final
     /\ \A u \in NetUrls :
          (phase = "running" /\ cache'[u] # cache[u]) =>
             \E w \in Workers :
                /\ MissReturn(w) /\ CurUrl(w) = u
                /\ cache'[u][1].ts = now]_vars

\* A check is in flight for a url whose stale record, missed by the get, is
\* still in the store.
C27_Witness ==
  \E w \in Workers :
     /\ wk[w].http # <<>> /\ wk[w].http[1].nreq = 1
     /\ cache[CurUrl(w)] # <<>>
     /\ cache[CurUrl(w)] = file0[CurUrl(w)]
     /\ now - cache[CurUrl(w)][1].ts > MaxAge

\* ---- redirect limit
\* The step is the last of w's http_ok call; the redirects the call met.
RedirectsMet(w) ==
  LET c == wk[w].http[1]
  IN c.seen + (IF Is3xx(net[<<c.current, c.method>>]) THEN 1 ELSE 0)

\* C30: a check started through process_file returns redirect_loop exactly
\* when it met more redirects than the limit the caller asked for.
C30_CallerLimit ==
  [][\A w \in Workers :
       MissReturn(w) =>
          ((Last(wk'[w].out).reason = LoopReason)
             <=> (RedirectsMet(w) > cfg.max_redirects))]_vars

\* ---- terminal statuses of http_ok
\* C28: a response that is neither 2xx nor 3xx ends the call at once with
\* (false, code, the response's url, "http_<code>"), unless the method is
\* HEAD and the code one of 400, 401, 403, 405, 501, when the call goes on
\* with GET; 404, 429 and 5xx under HEAD are terminal, and so is every such
\* status under GET.
C28_TerminalStatus ==
  (Stepped /\ LastResp.kind = "resp" /\ ~ Is2xx(LastResp) /\ ~ Is3xx(LastResp)) =>
     IF prev.method = "HEAD" /\ LastResp.code \in {400, 401, 403, 405, 501}
     THEN call.ret = <<>> /\ call.method = "GET"
     ELSE call.ret = << Outcome(FALSE, <<LastResp.code>>, <<LastResp.url>>,
                                HttpReason(LastResp.code)) >>

\* A 404 ended a call at its first HEAD, or a 405 ended a call under GET.
C28_Witness ==
  /\ Stepped /\ call.ret # <<>>
  /\ \/ /\ call.nreq = 1 /\ prev.method = "HEAD" /\ LastResp.code = 404
        /\ call.ret[1].reason = HttpReason(404)
     \/ /\ prev.method = "GET" /\ LastResp.code = 405
        /\ call.ret[1].reason = HttpReason(405)

\* ------------------------------------------------------------ internal links
\* The url of the call, split at its first "#".
ArgTarget == SubSeq(call.url, 1, HashAt(call.url) - 1)

ArgAnchor == SubSeq(call.url, HashAt(call.url) + 1, Len(call.url))

\* The slug of the call's anchor is the slug of a heading of file name.
AnchorFound(name) ==
  \E i \in 1..Len(Files[name]) :
     slugify_heading(ArgAnchor) = slugify_heading(Files[name][i])

MissingAnchor ==
  <<FALSE, [text |-> <<"missing_anchor: #">> \o ArgAnchor, num |-> <<>>]>>

\* C21: for a link with a target, a path that does not exist gives error
\* missing_relative_path whatever the anchor is; an existing path with an
\* anchor gives error unreadable_target_for_anchor_check when it cannot be
\* read and error missing_anchor when the anchor's slug is the slug of none
\* of its headings; every other case gives ok.
C21_TargetLink ==
  (call.ret # <<>> /\ ArgTarget # <<>>) =>
     call.ret[1] =
       IF resolve(ArgTarget) \notin DOMAIN Files
       THEN <<FALSE, Plain("missing_relative_path")>>
       ELSE IF ArgAnchor = <<>> THEN <<TRUE, OkReason>>
       ELSE IF resolve(ArgTarget) \in Unreadable
       THEN <<FALSE, Plain("unreadable_target_for_anchor_check")>>
       ELSE IF ~ AnchorFound(resolve(ArgTarget)) THEN MissingAnchor
       ELSE <<TRUE, OkReason>>

\* An anchor whose slug no heading of other.md has gave missing_anchor.
C21_Witness ==
  /\ call.ret # <<>>
  /\ call.url = <<"other.md", "#", "nope">>
  /\ call.ret[1][1] = FALSE
  /\ call.ret[1][2].text = <<"missing_anchor: #", "nope">>

\* C22: for a link without target the result is ok iff there is no anchor
\* or the anchor's slug is the slug of a heading of the referring document,
\* and error missing_anchor otherwise; #intro is ok in a document with the
\* heading Intro.
C22_InPageAnchor ==
  (call.ret # <<>> /\ ArgTarget = <<>>) =>
     /\ call.ret[1][1] <=> (ArgAnchor = <<>> \/ AnchorFound(call.md))
     /\ call.ret[1] = IF call.ret[1][1] THEN <<TRUE, OkReason>> ELSE MissingAnchor
     /\ (call.url = <<"#", "intro">>
           /\ \E i \in 1..Len(Files[call.md]) : Files[call.md][i] = <<"Intro">>)
          => call.ret[1][1]

\* #intro was found in a.md, whose heading is Intro.
C22_Witness ==
  /\ call.ret = << <<TRUE, OkReason>> >>
  /\ call.md = <<"a.md">> /\ call.url = <<"#", "intro">>

\* ------------------------------------------------------------ cache lifecycle
\* The occurrences of the corpus, each as <<document, index>>.
Occurrences ==
  UNION {{<<d, i>> : i \in 1..Len(Corpus[d].links)} : d \in Docs}

\* The url each occurrence is checked under.
OccUrls ==
  [o \in Occurrences |-> normalize_url(Corpus[o[1]].links[o[2]].raw)]

OccUrl(o) == OccUrls[o]

\* The step is a Cache.get or a Cache.put of a job.
GetOrPut == \E w \in Workers : (CallsCheckExternal(w) /\ Moved(w)) \/ MissReturn(w)

\* C31: a run loads the cache once, before any get or put of a job, and
\* saves it at most once, when every job has finished and its batch was
\* taken, so that the payload written holds a record for every url put in
\* the run; no get or put follows the save, and a run that ends by an
\* exception has not saved.
C31_CacheLifecycle ==
  [][/\ loads' <= 1 /\ saves' <= 1
     /\ phase' # "start" => loads' = 1
     /\ loads' = loads + 1 => looked = {} /\ invoked = {} /\ saves = 0
     /\ GetOrPut => loads = 1 /\ saves = 0 /\ saves' = 0
     /\ saves' = saves + 1 =>
          /\ \A w \in Workers : wk[w] = Idle
          /\ queue = <<>> /\ \A d \in FileSet : results[d] # <<>>
          /\ disk.writable =>
                /\ file' = cache
                /\ \A o \in invoked : file'[OccUrl(o)] # <<>>
     /\ phase' = "crashed" => saves' = 0]_vars

\* A run has loaded, put the records of two urls and saved them.
C31_Witness ==
  /\ phase = "saved" /\ loads = 1 /\ saves = 1 /\ file0 = NoData
  /\ \E o1, o2 \in invoked :
        /\ OccUrl(o1) = UA /\ OccUrl(o2) = UZero
        /\ file[UA] # <<>> /\ file[UZero] # <<>>
        /\ file[UZero][1].ts > file[UA][1].ts

\* ------------------------------------------------------- one cache subject
\* The occurrences whose check_external call has put its record in this run.
Puts ==
  {o \in invoked :
     ~ \E w \in Workers : wk[w].doc = o[1] /\ wk[w].i = o[2] /\ wk[w].http # <<>>}

\* The raw url without surrounding blanks and then without surrounding
\* ) . , ; characters.
Stripped(raw) == Strip(Strip(raw, {" "}), {")", ".", ",", ";"})

\* The path with its runs of slashes collapsed, the empty path being "/".
CanonPath(path) ==
  IF CollapseSlashes(path) = <<>> THEN <<"/">> ELSE CollapseSlashes(path)

\* Two raw http(s) urls have the same normalized form: after stripping, the
\* same scheme, host, collapsed path and fragment.
SameNormalForm(r1, r2) ==
  LET u1 == urlparse(Stripped(r1))
      u2 == urlparse(Stripped(r2))
  IN /\ u1.scheme \in {"http", "https"} /\ u1.scheme = u2.scheme
     /\ u1.netloc = u2.netloc
     /\ CanonPath(u1.path) = CanonPath(u2.path)
     /\ u1.fragment = u2.fragment

\* C32: raw urls with the same normalized form share one cache record: once
\* the check of one of them has put its record, a check of another within
\* max_age of that record is a cache hit: it issues no request, calls
\* http_ok for nothing, changes no record and reports the cached outcome.
C32_SharedRecord ==
  [][\A w \in Workers :
       (/\ CallsCheckExternal(w) /\ Moved(w)
        /\ \E o \in Puts :
              /\ SameNormalForm(Corpus[o[1]].links[o[2]].raw, CurLink(w).raw)
              /\ cache[OccUrl(o)] # <<>>
              /\ now - cache[OccUrl(o)][1].ts <= MaxAge) =>
          /\ wk'[w].http = <<>> /\ wk'[w].i = wk[w].i + 1
          /\ requested' = requested /\ invoked' = invoked /\ cache' = cache
          /\ Head(Last(wk'[w].out).reason.text) = "cached:"]_vars

\* http://a.example was checked for a.md; b.md then had http://a.example/,
\* and http://a.example// served from the record of that check.
C32_Witness ==
  /\ run = 1 /\ file0 = NoData /\ invoked = {<<1, 1>>}
  /\ \E w \in Workers :
        /\ wk[w].doc = 2 /\ wk[w].i = 3
        /\ Corpus[2].links[1].raw # Corpus[1].links[1].raw
        /\ Corpus[2].links[2].raw # Corpus[2].links[1].raw
        /\ \A i \in 1..2 :
              /\ wk[w].out[i].url = UA
              /\ Head(wk[w].out[i].reason.text) = "cached:"

\* ------------------------------------------------------------- exit status
\* The report has a Finding with status st.
Has(st) == \E i \in 1..Len(Report) : Report[i].status = st

\* C33: the status main returns is 1 iff a Finding has status error, or
\* strict mode is on and a Finding has status warning, and 0 otherwise;
\* Findings with status ok or skip alone give 0 in either mode.
C33_ExitStatus ==
  phase = "saved" =>
    \A strict \in BOOLEAN :
       /\ ExitCode(strict) \in {0, 1}
       /\ (ExitCode(strict) = 1) <=> (Has("error") \/ (strict /\ Has("warning")))
       /\ (\A i \in 1..Len(Report) : Report[i].status \in {"ok", "skip"})
             => ExitCode(strict) = 0

\* A run has ended with a skip and a warning and no error: it fails in
\* strict mode only.
C33_Witness ==
  /\ phase = "saved" /\ Has("skip") /\ Has("warning") /\ ~ Has("error")
  /\ ExitCode(FALSE) = 0 /\ ExitCode(TRUE) = 1

\* ---------------------------------------------------------------- pool width
\* The threads that are in a process_file call, and those of them whose
\* call is inside http_ok, a request on its way or about to be sent.
Running == {w \in Workers : wk[w].doc # 0}

InFlight == {w \in Workers : wk[w].http # <<>>}

\* C34: at any moment at most `workers` document jobs run, no document is
\* run by two of them, and as a job has at most one http_ok call open at a
\* time, at most `workers` requests are in flight.
C34_PoolWidth ==
  /\ Cardinality(Running) <= cfg.workers
  /\ Cardinality(InFlight) <= cfg.workers
  /\ InFlight \subseteq Running
  /\ \A w \in Workers : Len(wk[w].http) <= 1
  /\ \A v, w \in Running : wk[v].doc = wk[w].doc => v = w

\* With --workers 1 a job has a request in flight while a document waits
\* in the queue.
C34_Witness ==
  /\ cfg.workers = 1 /\ queue # <<>>
  /\ Cardinality(Running) = 1 /\ Cardinality(InFlight) = 1

\* ------------------------------------------------------------ hits and expiry
\* No record of the store has a reason that begins with "cached:".
NoPrefix(data) ==
  \A u \in NetUrls : data[u] # <<>> => Head(data[u][1].reason.text) # "cached:"

\* C35: a check served from the cache makes no put: the store, and with it
\* the record's timestamp and reason, stay as they are, so no stored reason
\* ever begins with "cached:"; a timestamp is set only by the put that ends
\* a network check, to the time of that put; and a record older than
\* max_age is missed by the get however often it was read before.
C35_HitFrame ==
  [][/\ \A w \in Workers :
          /\ HitReturn(w) =>
                /\ cache' = cache /\ written' = written /\ invoked' = invoked
                /\ Head(Last(wk'[w].out).reason.text) = "cached:"
          /\ (CallsCheckExternal(w) /\ Moved(w) /\ disk.shape # "array"
                 /\ cache[CurUrl(w)] # <<>>
                 /\ now - cache[CurUrl(w)][1].ts > MaxAge) =>
                wk'[w].http # <<>> /\ CurUrl(w) \in looked'
     /\ NoPrefix(cache) /\ NoPrefix(cache') /\ NoPrefix(file')
     /\ \A u \in NetUrls :
          (run' = run /\ cache[u] # <<>> /\ cache'[u] # <<>>
             /\ cache'[u][1].ts # cache[u][1].ts) =>
             /\ cache'[u][1].ts = now
             /\ \E w \in Workers : MissReturn(w) /\ CurUrl(w) = u]_vars

\* The record a network check wrote at time 0 was served to another job,
\* and in the next run, at time 2, a check of the url missed it.
C35_Witness ==
  /\ run = 2 /\ now = MaxTime /\ file0 = NoData
  /\ prevResults[1] # <<>> /\ prevResults[2] # <<>>
  /\ prevResults[1][1][1].reason = OkReason
  /\ prevResults[2][1][1].reason = Prefixed(OkReason)
  /\ cache[UA] # <<>> /\ cache[UA][1].ts = 0 /\ MaxTime > MaxAge
  /\ \E w \in Workers : wk[w].http # <<>> /\ CurUrl(w) = UA

\* ---------------------------------------------------- the tuples of http_ok
\* The names of the exception types urlopen raises with.
ExcNames == {r.name : r \in {x \in HarnessResponses : x.kind = "exc"}}

\* C36: the tuple http_ok returns is of one of four forms.  ok = true comes
\* with a code in 200..299, a final url and the reason "ok"; the reason
\* "redirect_loop" with ok = false and no code; a reason "http_<c>" with
\* ok = false, code = c and c outside 200..399; and the result of a
\* transport failure, whose reason is the name of the exception's type, with
\* ok = false, no code and no final url.
C36_WellFormedTuple ==
  call.ret # <<>> =>
    LET o == call.ret[1]
    IN /\ o.ok =>
            /\ o.code # <<>> /\ 200 <= o.code[1] /\ o.code[1] <= 299
            /\ o.final # <<>> /\ o.reason = OkReason
       /\ o.reason = LoopReason => ~ o.ok /\ o.code = <<>>
       /\ o.reason.text = <<"http_">> =>
            /\ ~ o.ok /\ o.code # <<>> /\ o.reason.num = o.code
            /\ ~ (200 <= o.code[1] /\ o.code[1] <= 399)
       /\ (Stepped /\ LastResp.kind = "exc") =>
            /\ o.reason = ExcReason(LastResp.name)
            /\ ~ o.ok /\ o.code = <<>> /\ o.final = <<>>
       /\ \/ o.reason \in {OkReason, LoopReason}
          \/ o.reason.text = <<"http_">>
          \/ o.reason \in {ExcReason(n) : n \in ExcNames}

\* After a redirect and a HEAD that failed, the GET failed too: a transport
\* failure result; and a 500 under GET after a redirect: an http_500 result.
C36_Witness ==
  /\ call.ret # <<>> /\ call.seen = 1 /\ call.method = "GET"
  /\ \/ call.ret[1] = Outcome(FALSE, <<>>, <<>>, ExcReason("timeout"))
     \/ call.ret[1] = Outcome(FALSE, <<500>>, <<UB>>, HttpReason(500))

\* ------------------------------------------------------- checks per url
\* While the pool runs, file is the cache file the run loaded.  Its records
\* were written before the run started, so the run started no earlier than
\* the latest of their timestamps (or 0, when it has none).
NotBefore ==
  CHOOSE t \in 0..MaxTime :
     /\ \A u \in NetUrls : file[u] # <<>> => file[u][1].ts <= t
     /\ t = 0 \/ \E u \in NetUrls : file[u] # <<>> /\ file[u][1].ts = t

\* The run has lasted at most max_age.
ShortRun == phase \in {"running", "failed"} /\ now - NotBefore <= MaxAge

\* The file the run loaded had no record of url, or one that was older than
\* max_age when the run started.
StartsCold(url) ==
  file[url] = <<>> \/ NotBefore - file[url][1].ts > MaxAge

\* The occurrences of the run's documents that are checked under url.
OccsOf(url) == {o \in Occurrences : o[1] \in FileSet /\ OccUrl(o) = url}

\* The document jobs that reference url.
Refs(url) == {o[1] : o \in OccsOf(url)}

\* The http_ok calls of this run for url, each by its occurrence.
Checks(url) == {o \in invoked : OccUrl(o) = url}

\* process_file hands url to check_external.
Checkable(url) ==
  LET u == urlparse(url)
  IN /\ u.scheme \in {"http", "https"}
     /\ ~ DeniedHost(cfg.deny_hosts, u.hostname)
     /\ ~ is_private_host(u.hostname)

\* Every job has returned and main has taken its batch.
RunOver == phase = "running" /\ AllDone

\* C37: in a run that lasts no longer than max_age and loaded no fresh
\* record of url U, http_ok is called for U at most once per document job
\* that references U: within a job only the first occurrence of U can reach
\* the network, every later one is served from the cache; when the jobs
\* are over U was checked at least once; and with one worker U is checked
\* exactly once in the run.
C37_ChecksPerUrl ==
  ShortRun =>
    \A U \in NetUrls :
      StartsCold(U) =>
        LET checks == Checks(U)
            occs == OccsOf(U)
        IN /\ Cardinality(checks) <= Cardinality({o[1] : o \in occs})
           /\ \A o, q \in checks : o[1] = q[1] => o = q
           /\ \A o \in checks, q \in occs : o[1] = q[1] => o[2] <= q[2]
           /\ cfg.workers = 1 => Cardinality(checks) <= 1
           /\ (RunOver /\ Checkable(U) /\ occs # {}) =>
                /\ Cardinality(checks) >= 1
                /\ cfg.workers = 1 => Cardinality(checks) = 1

\* Two jobs have each checked http://a.example/ against the network, and
\* the second occurrence in b.md was served from the cache.
C37_Witness ==
  /\ RunOver /\ ShortRun /\ StartsCold(UA)
  /\ Checks(UA) = {<<1, 1>>, <<2, 1>>} /\ Refs(UA) = {1, 2}
  /\ Cardinality(OccsOf(UA)) = 3
  /\ results[2][1][2].url = UA
  /\ Head(results[2][1][2].reason.text) = "cached:"

\* ------------------------------------------------------------- --no-verify-rel
\* The command line with the verify_rel argument the other way round.
Flipped == [cfg EXCEPT !.verify_rel = ~ @]

\* C38: the verify_rel argument has no effect.  Every pass of process_file
\* does with verify_rel = false exactly what it does with verify_rel = true:
\* the same Findings, lookups, requests and file-system accesses.  An
\* internal link is suppressed by external_only alone, and then gives no
\* Finding and no file-system lookup; otherwise it gives the Finding of
\* check_internal, whatever verify_rel is.
C38_VerifyRelIgnored ==
  [][\A w \in Workers :
       /\ (AtLink(w) /\ ~ wk[w].exc /\ Moved(w)) => Pass(Flipped, w)
       /\ (AtScheme(w, {""}) /\ Moved(w)) =>
            IF cfg.external_only
            THEN OnlyEmits(w, <<>>)
            ELSE LET r == check_internal(CurDoc(w).path, CurUrl(w))
                 IN /\ wk'[w].out = wk[w].out \o
                         << Finding(CurDoc(w).path, CurLink(w).line, CurUrl(w),
                                    "internal", IF r[1] THEN "ok" ELSE "error",
                                    r[2], <<>>, <<>>) >>
                    /\ resolved' = resolved \cup {<<CurDoc(w).path, CurUrl(w)>>}]_vars

\* Under --no-verify-rel b.md has returned the Findings of its two internal
\* links, the file system having been looked at for both.
C38_Witness ==
  /\ ~ cfg.verify_rel /\ ~ cfg.external_only /\ results[2] # <<>>
  /\ Cardinality(resolved) = 2
  /\ \E i, j \in 1..Len(results[2][1]) :
        /\ results[2][1][i].link_type = "internal"
        /\ results[2][1][i].status = "ok"
        /\ results[2][1][j].link_type = "internal"
        /\ results[2][1][j].reason = Plain("missing_relative_path")

\* ------------------------------------------------------------- normalization
\* C39: normalize_url is idempotent: applied to its own result it returns
\* that result.
C39_Idempotent == call.n = 2 => call.ret = prev.ret
====
